---------------------------- MODULE Spec2Model ----------------------------
(***************************************************************************)
(* A model of the routing engine of dcompass:                              *)
(*   - dmatcher::domain::Domain, the label-reversed domain trie            *)
(*   - droute::router::table, the rule table and its validation            *)
(*   - droute::router, resolve/route and the response cache                *)
(* Strings are sequences of one-character strings, so that split, filter   *)
(* and the character check of the source are computed, not assumed.        *)
(***************************************************************************)
EXTENDS Integers, Sequences, FiniteSets, TLC

VARIABLES
    root,        \* Domain.root: the trie, a LevelNode
    inserted,    \* history: label lists (as written) of the valid inserts made
    lastOp,      \* history: the last Domain operation and its outcome
    table,       \* the HashMap<Label, Box<dyn Rule>> handed to Table::new
    result,      \* what Table::new returned (kind "none" before the call)
    calls,       \* history: the tags traverse was called on, in order
    rules,       \* Router.table.rules: the rules of the validated Table
    log_info,    \* whether the log level Info is enabled (fixed for a run)
    cache,       \* the RespCache: its entries, most recently used first
    now,         \* the clock read by Instant::now()
    tasks,       \* per task: the resolve call it runs and where it stands
    cacheOp,     \* history: the last direct call of RespCache::put or get
    dmatcher,    \* Dmatcher.root: the trie of tagged domains, a LevelNode
    dm_inserted, \* history: label list -> dst of the Dmatcher inserts made
    dm_last,     \* history: the last Dmatcher operation and what it returned
    route_rules, \* Table.rules of an accepted table, as Table::route reads it
    route_tag,   \* the local `tag` of the loop of Table::route
    route_path,  \* history: the tags whose rule the loop has invoked, in order
    route_pc,    \* loop, done, error or panicked
    multi_text,  \* the argument of Domain::insert_multi
    multi_before, \* history: the trie insert_multi was called on
    record_msg,  \* the argument of CacheRecord::new
    record,      \* the CacheRecord made of it, NoRecord before the call
    build_rules, \* the rule map of a RouterBuilder
    build_upstreams, \* the upstream tags its upstream registry declares
    router,      \* what RouterBuilder::try_into returned, NoRouter before
    last_put     \* history: key -> the response of the last put that stored

domainVars == <<root, inserted, lastOp>>
tableVars == <<table, result, calls>>

routerVars == <<rules, log_info, cache, now, tasks>>

dmVars == <<dmatcher, dm_inserted, dm_last>>
routeVars == <<route_rules, route_tag, route_path, route_pc>>
multiVars == <<multi_text, multi_before>>
recordVars == <<record_msg, record>>
buildVars == <<build_rules, build_upstreams, router>>
keyVars == <<last_put>>

vars == <<root, inserted, lastOp, table, result, calls,
          rules, log_info, cache, now, tasks, cacheOp,
          dmatcher, dm_inserted, dm_last,
          route_rules, route_tag, route_path, route_pc,
          multi_text, multi_before, record_msg, record,
          build_rules, build_upstreams, router, last_put>>

-----------------------------------------------------------------------------
(* Bounds of the Domain model *)

\* longest string handed to Domain::insert
MaxInsertLen == 4
\* longest name handed to Domain::matches
MaxNameLen == 4
\* most distinct domains inserted into one trie
MaxDomains == 3

\* Characters of the strings inserted: a letter, the separator, a comment sign.
InsertChars == {"a", ".", "#"}
\* Characters of the names looked up: a letter, the separator, and one
\* non-ASCII character (written by its code point, U+4F60).
NameChars == {"a", ".", "u4f60"}

StringsOver(chars, n) == UNION {[1..k -> chars] : k \in 0..n}

InsertInputs == StringsOver(InsertChars, MaxInsertLen)
Names == StringsOver(NameChars, MaxNameLen)

-----------------------------------------------------------------------------
(* Helpers of the standard library used by domain.rs *)

AsciiAlphabetic ==
    {"a","b","c","d","e","f","g","h","i","j","k","l","m",
     "n","o","p","q","r","s","t","u","v","w","x","y","z",
     "A","B","C","D","E","F","G","H","I","J","K","L","M",
     "N","O","P","Q","R","S","T","U","V","W","X","Y","Z"}
AsciiDigit == {"0","1","2","3","4","5","6","7","8","9"}

is_ascii_alphabetic(c) == c \in AsciiAlphabetic
is_ascii_digit(c) == c \in AsciiDigit

\* str::split(sep): n separators give n + 1 segments, empty ones included.
RECURSIVE split(_, _)
split(s, sep) ==
    IF s = <<>> THEN << <<>> >>
    ELSE LET rest == split(Tail(s), sep) IN
         IF Head(s) = sep
         THEN << <<>> >> \o rest
         ELSE << <<Head(s)>> \o Head(rest) >> \o Tail(rest)

\* Iterator::rev
RECURSIVE rev(_)
rev(s) == IF s = <<>> THEN <<>> ELSE rev(Tail(s)) \o <<Head(s)>>

is_empty(x) == x = <<>>

-----------------------------------------------------------------------------
(* dmatcher::domain *)

\* LevelNode::new: a node without children.
LevelNode_new == [next_lvs |-> [lv \in {} |-> <<>>]]

\* Domain::new
Domain_new == LevelNode_new

\* The character check at the head of Domain::insert.
valid(domain) ==
    \A i \in 1..Len(domain) :
        \/ is_ascii_alphabetic(domain[i])
        \/ is_ascii_digit(domain[i])
        \/ domain[i] = "-"
        \/ domain[i] = "."

\* domain.split('.').filter(|lv| !lv.is_empty()): the labels as written.
labels(domain) == SelectSeq(split(domain, "."), LAMBDA lv : ~is_empty(lv))

\* ... .rev().collect(): the labels, top-level domain first.
lvs(domain) == rev(labels(domain))

\* The loop of Domain::insert leaving off at a node without children that
\* is already there, the rest of the domain being covered by it.
RECURSIVE insert_walk_covered(_, _)
insert_walk_covered(ptr, ls) ==
    IF ls = <<>> THEN ptr
    ELSE LET lv == Head(ls)
             child == IF lv \in DOMAIN ptr.next_lvs
                      THEN ptr.next_lvs[lv]
                      ELSE LevelNode_new
         IN IF lv \in DOMAIN ptr.next_lvs /\ DOMAIN child.next_lvs = {}
            THEN ptr
            ELSE [next_lvs |->
                    [k \in (DOMAIN ptr.next_lvs) \cup {lv} |->
                        IF k = lv THEN insert_walk_covered(child, Tail(ls))
                        ELSE ptr.next_lvs[k]]]

\* The loop of Domain::insert written with insert(lv, LevelNode::new()) in
\* place of entry(lv).or_insert_with(..): the node of the last label is fresh.
RECURSIVE insert_walk_fresh(_, _)
insert_walk_fresh(ptr, ls) ==
    IF ls = <<>> THEN LevelNode_new
    ELSE LET lv == Head(ls)
             child == IF lv \in DOMAIN ptr.next_lvs
                      THEN ptr.next_lvs[lv]
                      ELSE LevelNode_new
         IN [next_lvs |->
                [k \in (DOMAIN ptr.next_lvs) \cup {lv} |->
                    IF k = lv THEN insert_walk_fresh(child, Tail(ls))
                    ELSE ptr.next_lvs[k]]]

\* The loop of Domain::insert: entry(lv).or_insert_with(LevelNode::new).
RECURSIVE insert_walk(_, _)
insert_walk(ptr, ls) ==
    IF ls = <<>> THEN ptr
    ELSE LET lv == Head(ls)
             child == IF lv \in DOMAIN ptr.next_lvs
                      THEN ptr.next_lvs[lv]
                      ELSE LevelNode_new
         IN [next_lvs |->
                [k \in (DOMAIN ptr.next_lvs) \cup {lv} |->
                    IF k = lv THEN insert_walk(child, Tail(ls))
                    ELSE ptr.next_lvs[k]]]

\* Domain::insert with the check written with any() in place of all(): a
\* string is rejected only when none of its characters is allowed.
Domain_insert_any(r, domain) ==
    IF domain # <<>> /\ \A i \in 1..Len(domain) : ~valid(<<domain[i]>>)
    THEN r
    ELSE insert_walk(r, lvs(domain))

\* Domain::insert
Domain_insert(r, domain) ==
    IF ~valid(domain) THEN r ELSE insert_walk(r, lvs(domain))

\* for_each(|lv| self.insert(lv)) over the lines kept.
RECURSIVE for_each_insert(_, _)
for_each_insert(r, ls) ==
    IF ls = <<>> THEN r
    ELSE for_each_insert(Domain_insert(r, Head(ls)), Tail(ls))

\* Domain::insert_multi leaving the loop at the first line insert ignores.
Domain_insert_multi_stops(r, text) ==
    LET ls == SelectSeq(split(text, "\n"), LAMBDA x : ~is_empty(x))
        bad == {i \in 1..Len(ls) : ~valid(ls[i])}
        upto == IF bad = {} THEN Len(ls)
                ELSE (CHOOSE i \in bad : \A j \in bad : i <= j) - 1
    IN for_each_insert(r, SubSeq(ls, 1, upto))

\* Domain::insert_multi
Domain_insert_multi(r, text) ==
    for_each_insert(r, SelectSeq(split(text, "\n"), LAMBDA x : ~is_empty(x)))

\* The loop of Domain::matches.
RECURSIVE matches_walk(_, _)
matches_walk(ptr, ls) ==
    IF ls = <<>> THEN TRUE
    ELSE IF DOMAIN ptr.next_lvs = {} THEN TRUE
    ELSE IF Head(ls) \in DOMAIN ptr.next_lvs
         THEN matches_walk(ptr.next_lvs[Head(ls)], Tail(ls))
         ELSE FALSE

\* Domain::matches
Domain_matches(r, domain) == matches_walk(r, lvs(domain))

-----------------------------------------------------------------------------
(* The Domain state machine *)

\* The character class [A-Za-z0-9-.] of a domain, for the history variables.
AllowedChars == AsciiAlphabetic \cup AsciiDigit \cup {"-", "."}
HasInvalidChar(s) == \E i \in 1..Len(s) : s[i] \notin AllowedChars

DomainInit ==
    /\ root = Domain_new
    /\ inserted = {}
    /\ lastOp = [op |-> "new", ok |-> TRUE, again |-> FALSE]

\* matcher.insert(domain). The history records the call, not its effect:
\* ok says whether the string lies within the character class, again whether
\* the domain had been inserted before.
DomainInsert(domain) ==
    /\ Cardinality(inserted \cup {labels(domain)}) <= MaxDomains
    /\ root' = Domain_insert(root, domain)
    /\ inserted' = IF HasInvalidChar(domain) THEN inserted
                   ELSE inserted \cup {labels(domain)}
    /\ lastOp' = [op |-> "insert", ok |-> ~HasInvalidChar(domain),
                  again |-> ~HasInvalidChar(domain) /\ labels(domain) \in inserted]

\* matcher.matches(name)
DomainMatches(name) ==
    /\ lastOp' = [op |-> "matches", ok |-> Domain_matches(root, name),
                  again |-> FALSE]
    /\ UNCHANGED <<root, inserted>>


-----------------------------------------------------------------------------
(* Claims about the Domain matcher *)

\* d is a suffix of ls, label for label.
IsSuffix(d, ls) ==
    /\ Len(d) <= Len(ls)
    /\ SubSeq(ls, Len(ls) - Len(d) + 1, Len(ls)) = d

\* The domains of at least one label inserted so far.
InsertedDomains == inserted \ {<<>>}

(* C1: suffix match. Whatever inserts were made, every name whose labels end
   with the labels of an inserted domain d (any leading labels, with or
   without a trailing dot) is matched. *)
C1_SuffixMatch ==
    \A d \in InsertedDomains :
        \A name \in Names :
            IsSuffix(d, labels(name)) => Domain_matches(root, name)

(* C2: no false match. With at least one domain inserted, a name of at least
   one label none of whose label suffixes is an inserted domain is not
   matched; this covers names shorter than every inserted domain. *)
C2_NoFalseMatch ==
    InsertedDomains # {} =>
        \A name \in Names :
            (/\ labels(name) # <<>>
             /\ \A d \in InsertedDomains : ~IsSuffix(d, labels(name)))
                => ~Domain_matches(root, name)

(* C3: on a trie into which no domain has been inserted (fresh, or only
   rejected inserts), no name with at least one non-empty label matches. *)
C3_EmptyTrieMatchesNothing ==
    InsertedDomains = {} =>
        \A name \in Names :
            labels(name) # <<>> => ~Domain_matches(root, name)

(* C4: invalid input quarantine. An insert of a string with a character
   outside [A-Za-z0-9-.] leaves the trie unchanged (and with it, matches
   reading nothing but the trie, the result of every later matches). *)
C4_InvalidInputQuarantine ==
    [][(lastOp'.op = "insert" /\ ~lastOp'.ok) => root' = root]_vars

\* An invalid insert was made on a trie that holds domains.
C4_Witness ==
    /\ lastOp = [op |-> "insert", ok |-> FALSE, again |-> FALSE]
    /\ DOMAIN root.next_lvs # {}

(* C24: insert is idempotent. On every trie, inserting a string twice gives
   the trie that inserting it once gives, and inserting a domain that was
   inserted before leaves the trie as it is. *)
C24_InsertIdempotent ==
    \A d \in InsertInputs :
        LET once == Domain_insert(root, d)
        IN /\ Domain_insert(once, d) = once
           /\ (valid(d) /\ labels(d) \in inserted) => once = root

\* A domain was inserted again after a longer domain was inserted below it.
C24_Witness ==
    /\ lastOp.op = "insert" /\ lastOp.again
    /\ \E lv \in DOMAIN root.next_lvs : DOMAIN root.next_lvs[lv].next_lvs # {}

\* The trie of a set of domains, each given by its labels, last label first:
\* a child for every first label, holding the trie of what follows it.
RECURSIVE TrieOf(_)
TrieOf(S) ==
    [next_lvs |->
        [lv \in {Head(x) : x \in S \ {<<>>}} |->
            TrieOf({Tail(x) : x \in {y \in S \ {<<>>} : Head(y) = lv}})]]

(* C33: the trie depends on the set of valid domains inserted only, not on
   the order of the inserts: after every sequence of inserts it is the trie
   of that set, and so matches gives the same result for every name. *)
C33_OrderIndependent == root = TrieOf({rev(d) : d \in inserted})

\* Three domains were inserted, one of them below another, one beside it.
C33_Witness ==
    /\ Cardinality(InsertedDomains) = 3
    /\ Cardinality(DOMAIN root.next_lvs) = 2
    /\ \E lv \in DOMAIN root.next_lvs : DOMAIN root.next_lvs[lv].next_lvs # {}

-----------------------------------------------------------------------------
(* Domain::insert_multi, applied once to a text *)

MaxTextLen == 6

TextChars == {"a", ".", "\n", "#"}
Texts == StringsOver(TextChars, MaxTextLen)

\* The tries insert_multi is called on: a fresh one and one that holds a.
MultiRoots == {Domain_new, Domain_insert(Domain_new, <<"a">>)}

MultiInit ==
    /\ multi_text \in Texts
    /\ root \in MultiRoots
    /\ multi_before = root
    /\ inserted = {}
    /\ lastOp = [op |-> "new", ok |-> TRUE, again |-> FALSE]

\* matcher.insert_multi(multi_text)
DomainInsertMulti ==
    /\ lastOp.op = "new"
    /\ root' = Domain_insert_multi(root, multi_text)
    /\ lastOp' = [op |-> "insert_multi", ok |-> TRUE, again |-> FALSE]
    /\ UNCHANGED <<inserted, multi_text, multi_before>>

\* The lines of a text read character by character: a line ends at '\n' or
\* at the end of the text, and the lines without a character are left out.
RECURSIVE LinesOf(_, _, _)
LinesOf(text, line, done) ==
    LET more == IF line = <<>> THEN done ELSE Append(done, line)
    IN IF text = <<>> THEN more
       ELSE IF Head(text) = "\n" THEN LinesOf(Tail(text), <<>>, more)
       ELSE LinesOf(Tail(text), Append(line, Head(text)), done)

\* insert called on each line, the first line first.
RECURSIVE InsertInOrder(_, _)
InsertInOrder(r, ls) ==
    IF ls = <<>> THEN r
    ELSE Domain_insert(InsertInOrder(r, SubSeq(ls, 1, Len(ls) - 1)), ls[Len(ls)])

(* C25: insert_multi(text) leaves the trie that insert, called in order on
   each non-empty '\n'-separated line of the text, leaves: blank lines add
   nothing, and a line with an invalid character is passed over without a
   change to what the other lines insert. insert_multi("a.a\n\na") is
   insert("a.a"); insert("a"). *)
C25_InsertMulti ==
    lastOp.op = "insert_multi" =>
        LET ls == LinesOf(multi_text, <<>>, <<>>)
        IN /\ root = InsertInOrder(multi_before, ls)
           /\ root = InsertInOrder(multi_before, SelectSeq(ls, valid))
           /\ multi_text = <<"a", ".", "a", "\n", "\n", "a">>
                => root = Domain_insert(Domain_insert(multi_before,
                                                      <<"a", ".", "a">>), <<"a">>)

\* insert_multi was given an invalid line, a blank line and the line a.a.
C25_Witness ==
    /\ lastOp.op = "insert_multi"
    /\ multi_text = <<"#", "\n", "\n", "a", ".", "a">>
    /\ root # multi_before

-----------------------------------------------------------------------------
(* dmatcher::Dmatcher, the matcher of tagged domains (lib.rs) *)

None == <<>>
Some(x) == <<x>>

\* Characters of the domains inserted into a Dmatcher, and their tags.
DmInsertChars == {"a", "."}
DmInputs == StringsOver(DmInsertChars, MaxInsertLen)
Dsts == {"global", "domestic"}

\* LevelNode::new of lib.rs: no dst, no children.
DmLevelNode_new == [dst |-> None, next_lvs |-> [lv \in {} |-> <<>>]]

\* Dmatcher::new
Dmatcher_new == DmLevelNode_new

\* domain.split('.').collect() reversed: the levels, empty ones included.
Dmatcher_lvs(domain) == rev(split(domain, "."))

\* The loop of Dmatcher::insert and the assignment of dst after it.
RECURSIVE dm_insert_walk(_, _, _)
dm_insert_walk(ptr, ls, dst) ==
    IF ls = <<>> THEN [ptr EXCEPT !.dst = Some(dst)]
    ELSE IF Head(ls) = <<>> THEN dm_insert_walk(ptr, Tail(ls), dst)
    ELSE LET lv == Head(ls)
             child == IF lv \in DOMAIN ptr.next_lvs
                      THEN ptr.next_lvs[lv]
                      ELSE DmLevelNode_new
         IN [ptr EXCEPT !.next_lvs =
                [k \in (DOMAIN ptr.next_lvs) \cup {lv} |->
                    IF k = lv THEN dm_insert_walk(child, Tail(ls), dst)
                    ELSE ptr.next_lvs[k]]]

\* Dmatcher::insert
Dmatcher_insert(r, domain, dst) == dm_insert_walk(r, Dmatcher_lvs(domain), dst)

\* The loop of Dmatcher::matches and the value returned after it.
RECURSIVE dm_matches_walk(_, _)
dm_matches_walk(ptr, ls) ==
    IF ls = <<>> THEN ptr.dst
    ELSE IF Head(ls) = <<>> THEN dm_matches_walk(ptr, Tail(ls))
    ELSE IF DOMAIN ptr.next_lvs = {} THEN ptr.dst
    ELSE IF Head(ls) \in DOMAIN ptr.next_lvs
    THEN dm_matches_walk(ptr.next_lvs[Head(ls)], Tail(ls))
    ELSE None

\* Dmatcher::matches
Dmatcher_matches(r, domain) == dm_matches_walk(r, Dmatcher_lvs(domain))

-----------------------------------------------------------------------------
(* The Dmatcher state machine *)

DmInit ==
    /\ dmatcher = Dmatcher_new
    /\ dm_inserted = [d \in {} |-> ""]
    /\ dm_last = [op |-> "new", ret |-> None]

\* matcher.insert(domain, dst)
DmInsert(domain, dst) ==
    /\ Cardinality((DOMAIN dm_inserted) \cup {labels(domain)}) <= MaxDomains
    /\ dmatcher' = Dmatcher_insert(dmatcher, domain, dst)
    /\ dm_inserted' = [d \in (DOMAIN dm_inserted) \cup {labels(domain)} |->
                         IF d = labels(domain) THEN dst ELSE dm_inserted[d]]
    /\ dm_last' = [op |-> "insert", ret |-> None]

\* matcher.matches(name)
DmMatches(name) ==
    /\ dm_last' = [op |-> "matches", ret |-> Dmatcher_matches(dmatcher, name)]
    /\ UNCHANGED <<dmatcher, dm_inserted>>

-----------------------------------------------------------------------------
(* Claims about Dmatcher *)

\* The tagged domains of at least one label inserted so far.
DmInsertedDomains == (DOMAIN dm_inserted) \ {<<>>}

\* The inserted domains that are a suffix of the name, label for label.
SuffixesOf(name) == {d \in DmInsertedDomains : IsSuffix(d, labels(name))}

(* C21: with domains of at least one label inserted, matches(x) returns
   Some(dst of d) for an inserted domain d that is a label-wise suffix of x
   whenever there is one (trailing dot or not, extra non-ASCII leading labels
   or not), and None when no inserted domain is a suffix of x. *)
C21_DmatcherSuffix ==
    <<>> \notin DOMAIN dm_inserted =>
        \A name \in Names :
            IF SuffixesOf(name) = {}
            THEN Dmatcher_matches(dmatcher, name) = None
            ELSE \E d \in SuffixesOf(name) :
                    Dmatcher_matches(dmatcher, name) = Some(dm_inserted[d])

-----------------------------------------------------------------------------
(* droute::router::table: rules *)

\* Action::Query(upstream tag, cache mode) and the action that does nothing.
Query(tag, mode) == [kind |-> "query", tag |-> tag, mode |-> mode]
Skip == [kind |-> "skip", tag |-> "", mode |-> ""]

\* A branch: actions, then the tag of the next rule.
Branch(actions, next) == [actions |-> actions, next |-> next]

\* The two shapes of rule. A SeqBlock is held in on_match.
SeqBlock(b) == [kind |-> "seq", matcher |-> "any", on_match |-> b, no_match |-> b]
IfBlock(m, b1, b2) == [kind |-> "if", matcher |-> m, on_match |-> b1, no_match |-> b2]

\* Rule::dsts: the next tags of the rule's branches, in declared order.
Rule_dsts(r) ==
    IF r.kind = "seq" THEN <<r.on_match.next>>
    ELSE <<r.on_match.next, r.no_match.next>>

\* The upstream tags of the Query actions of a branch.
Branch_used_upstreams(b) ==
    {b.actions[i].tag : i \in {j \in 1..Len(b.actions) : b.actions[j].kind = "query"}}

\* Rule::used_upstreams
Rule_used_upstreams(r) ==
    IF r.kind = "seq" THEN Branch_used_upstreams(r.on_match)
    ELSE Branch_used_upstreams(r.on_match) \cup Branch_used_upstreams(r.no_match)

\* ValidateCell: a counter and a flag that remembers that it was ever raised.
ValidateCell_default == [val |-> 0, used |-> FALSE]
ValidateCell_add(c, n) == [val |-> c.val + n, used |-> TRUE]
ValidateCell_sub(c, n) == [val |-> c.val - n, used |-> c.used]
ValidateCell_used(c) == c.used
ValidateCell_val(c) == c.val

-----------------------------------------------------------------------------
(* droute::router::table: traverse and Table::new *)

\* The results of Table::new, in one record shape.
NoResult == [kind |-> "none", tag |-> "", unused |-> {}, used_upstreams |-> {}]
Ok(ups) == [kind |-> "Ok", tag |-> "", unused |-> {}, used_upstreams |-> ups]
UndefinedTag(t) == [kind |-> "UndefinedTag", tag |-> t, unused |-> {}, used_upstreams |-> {}]
RuleRecursion(t) == [kind |-> "RuleRecursion", tag |-> t, unused |-> {}, used_upstreams |-> {}]
UnusedRules(u) == [kind |-> "UnusedRules", tag |-> "", unused |-> u, used_upstreams |-> {}]

\* The bucket built at the head of Table::new: a fresh cell beside each rule.
new_bucket(t) == [k \in DOMAIN t |-> [cell |-> ValidateCell_default, rule |-> t[k]]]

\* traverse, line 118 passing over every destination: none is traversed.
is_end_always(dst) == TRUE

\* traverse, line 118 without the test: `end` is traversed like any tag.
is_end_never(dst) == FALSE

\* traverse, line 118: the destination `end` is not traversed.
is_end(dst) == dst = "end"

\* traverse, line 122 forgotten: the counter stays raised after the unwind.
unwind_keep(bucket, tag) == bucket

\* traverse, line 122: bucket.get_mut(tag).unwrap().0.sub(1)
unwind(bucket, tag) ==
    [bucket EXCEPT ![tag].cell = ValidateCell_sub(bucket[tag].cell, 1)]

(* traverse(bucket, tag). The value is the bucket after the call, the error
   returned (NoResult for Ok(())), and, as history, the tags traverse was
   called on, in order. *)
RECURSIVE traverse(_, _)
RECURSIVE traverse_dsts(_, _)
traverse(bucket, tag) ==
    IF tag \notin DOMAIN bucket
    THEN [bucket |-> bucket, err |-> UndefinedTag(tag), calls |-> <<tag>>]
    ELSE IF ValidateCell_val(bucket[tag].cell) >= 1
    THEN [bucket |-> bucket, err |-> RuleRecursion(tag), calls |-> <<tag>>]
    ELSE LET raised == [bucket EXCEPT ![tag].cell = ValidateCell_add(bucket[tag].cell, 1)]
             looped == traverse_dsts(raised, Rule_dsts(bucket[tag].rule))
         IN IF looped.err # NoResult
            THEN [looped EXCEPT !.calls = <<tag>> \o looped.calls]
            ELSE [bucket |-> unwind(looped.bucket, tag),
                  err |-> NoResult,
                  calls |-> <<tag>> \o looped.calls]

\* The loop over dsts in traverse; `?` leaves it at the first error.
traverse_dsts(bucket, dsts) ==
    IF dsts = <<>> THEN [bucket |-> bucket, err |-> NoResult, calls |-> <<>>]
    ELSE LET first == IF ~is_end(Head(dsts))
                      THEN traverse(bucket, Head(dsts))
                      ELSE [bucket |-> bucket, err |-> NoResult, calls |-> <<>>]
         IN IF first.err # NoResult THEN first
            ELSE LET others == traverse_dsts(first.bucket, Tail(dsts))
                 IN [others EXCEPT !.calls = first.calls \o others.calls]

\* Table::new, lines 167-171: the upstreams of the rules that were visited.
used_upstreams_of(bucket) ==
    UNION {Rule_used_upstreams(bucket[k].rule) :
             k \in {t \in DOMAIN bucket : ValidateCell_used(bucket[t].cell)}}

\* Table::new, lines 172-177, taking a rule named like a queried upstream
\* for a used one.
unused_of_upstreams(bucket) ==
    {k \in DOMAIN bucket : ~ValidateCell_used(bucket[k].cell)}
        \ used_upstreams_of(bucket)

\* Table::new, lines 172-177, leaving a rule under the tag `end` out.
unused_of_but_end(bucket) ==
    {k \in DOMAIN bucket : ~ValidateCell_used(bucket[k].cell)} \ {"end"}

\* Table::new, lines 172-177: the rules that were never visited.
unused_of(bucket) == {k \in DOMAIN bucket : ~ValidateCell_used(bucket[k].cell)}

\* Table::new with the test for unused rules ahead of the `?` of line 166.
Table_new_unused_first(t) ==
    LET walked == traverse(new_bucket(t), "start")
    IN IF unused_of(walked.bucket) # {}
       THEN UnusedRules(unused_of(walked.bucket))
       ELSE IF walked.err # NoResult THEN walked.err
            ELSE Ok(used_upstreams_of(walked.bucket))

\* Table::new without the `?` of line 166: the error of traverse is dropped.
Table_new_ignores_traverse(t) ==
    LET walked == traverse(new_bucket(t), "start")
    IN IF unused_of(walked.bucket) # {}
       THEN UnusedRules(unused_of(walked.bucket))
       ELSE Ok(used_upstreams_of(walked.bucket))

\* Table::new without lines 178-180: unused rules are not reported.
Table_new_keeps_unused(t) ==
    LET walked == traverse(new_bucket(t), "start")
    IN IF walked.err # NoResult THEN walked.err
       ELSE Ok(used_upstreams_of(walked.bucket))

\* Table::new
Table_new(t) ==
    LET walked == traverse(new_bucket(t), "start")
    IN IF walked.err # NoResult THEN walked.err
       ELSE IF unused_of(walked.bucket) # {}
            THEN UnusedRules(unused_of(walked.bucket))
            ELSE Ok(used_upstreams_of(walked.bucket))

-----------------------------------------------------------------------------
(* The rule maps handed to Table::new *)

\* Tags of rules; `mock` is also the tag of an upstream.
RuleTags == {"start", "foo", "mock"}
\* Destinations of branches.
DstTags == RuleTags \cup {"end"}

PlainBranches == {Branch(<<>>, d) : d \in DstTags}
QueryBranches == {Branch(<<Query("mock", "persist")>>, d) : d \in DstTags}

\* SeqBlocks and IfBlocks; a Query action may stand in the (first) branch.
RuleSet ==
    {SeqBlock(b) : b \in PlainBranches \cup QueryBranches}
        \cup {IfBlock("any", b1, b2) :
                 b1 \in PlainBranches \cup QueryBranches, b2 \in PlainBranches}
\* Rules tried under the reserved tag `end`.
EndRules == {SeqBlock(Branch(<<>>, "end")), SeqBlock(Branch(<<>>, "start"))}

RuleMaps ==
    UNION {[K -> RuleSet] : K \in SUBSET RuleTags}
WithEnd(t, r) == [k \in DOMAIN t \cup {"end"} |-> IF k = "end" THEN r ELSE t[k]]
RuleMapsWithEnd == {WithEnd(t, r) : t \in RuleMaps, r \in EndRules}

EmptyMap == [k \in {} |-> SeqBlock(Branch(<<>>, "end"))]

TableInit ==
    /\ table \in RuleMaps \cup RuleMapsWithEnd
    /\ result = NoResult
    /\ calls = <<>>

\* Table::new(table)
TableNew ==
    /\ result = NoResult
    /\ result' = Table_new(table)
    /\ calls' = traverse(new_bucket(table), "start").calls
    /\ UNCHANGED table

-----------------------------------------------------------------------------
(* Claims about Table::new *)

\* The rule graph: the edges of rule k lead to its destinations; `end` is the
\* terminal, never a rule.
Edges(t, k) == {Rule_dsts(t[k])[i] : i \in 1..Len(Rule_dsts(t[k]))} \ {"end"}

\* The tags reached from the tags S along edges (S included).
RECURSIVE Reach(_, _)
Reach(t, S) ==
    LET S2 == S \cup UNION {Edges(t, k) : k \in S \cap DOMAIN t}
    IN IF S2 = S THEN S ELSE Reach(t, S2)

ReachFromStart(t) == Reach(t, {"start"})
OnCycle(t, k) == k \in DOMAIN t /\ k \in Reach(t, Edges(t, k))

AllReachable(t) == DOMAIN t \subseteq ReachFromStart(t)
NoCycle(t) == \A k \in DOMAIN t : ~OnCycle(t, k)
AllDefined(t) == \A k \in DOMAIN t : Edges(t, k) \subseteq DOMAIN t
Unreachable(t) == DOMAIN t \ ReachFromStart(t)

(* C5 as stated: Table::new returns Ok if and only if every rule is reachable
   from `start`, the graph has no cycle and every destination is a rule or
   `end`. *)
C5_ValidationCompleteness ==
    result # NoResult =>
        (result.kind = "Ok"
            <=> AllReachable(table) /\ NoCycle(table) /\ AllDefined(table))

(* C5 amended: Table::new returns Ok if and only if `start` is a rule of the
   map, every rule is reachable from `start`, the graph has no cycle and
   every destination is a rule or `end`. *)
C5_ValidationCompleteness_Amended ==
    result # NoResult =>
        (result.kind = "Ok"
            <=> /\ "start" \in DOMAIN table
                /\ AllReachable(table) /\ NoCycle(table) /\ AllDefined(table))

\* Table::new accepted a map of three rules.
C5_Witness == result.kind = "Ok" /\ Cardinality(DOMAIN table) = 3

(* C6: RuleRecursion(tag) is returned only for a tag on a cycle reachable
   from `start`, hence never for an acyclic graph, however many paths lead to
   a rule; the map {start -> start} yields RuleRecursion(start). *)
C6_RecursionOnlyOnCycle ==
    /\ result.kind = "RuleRecursion" =>
          result.tag \in ReachFromStart(table) /\ OnCycle(table, result.tag)
    /\ (result # NoResult /\ DOMAIN table = {"start"}
          /\ Rule_dsts(table["start"]) = <<"start">>)
            => result = RuleRecursion("start")

\* A map whose rule foo is reached along both branches of start was accepted.
C6_Witness ==
    /\ result.kind = "Ok"
    /\ "foo" \in DOMAIN table
    /\ Rule_dsts(table["start"]) = <<"foo", "foo">>

(* C7: when the traversal ends without UndefinedTag or RuleRecursion and some
   rule is not reachable from `start` along next tags, Table::new returns
   UnusedRules(S) with S exactly the unreachable rules; the upstream tag of a
   Query action is no reference to a rule. *)
C7_UnusedRulesExact ==
    result.kind \in {"Ok", "UnusedRules"} =>
        IF Unreachable(table) # {}
        THEN result = UnusedRules(Unreachable(table))
        ELSE result.kind = "Ok"

\* start queries the upstream mock, and the rule mock is reported unused.
C7_Witness ==
    /\ result.kind = "UnusedRules"
    /\ "mock" \in result.unused
    /\ "mock" \in Rule_used_upstreams(table["start"])

(* C8: whenever traverse is called on a tag that is no rule of the map,
   Table::new returns UndefinedTag of that tag, `start` included when the map
   has no rule `start`; traverse is never called on `end`. *)
C8_UndefinedTag ==
    result # NoResult =>
        /\ \A i \in 1..Len(calls) :
              /\ calls[i] # "end"
              /\ calls[i] \notin DOMAIN table => result = UndefinedTag(calls[i])
        /\ "start" \notin DOMAIN table => result = UndefinedTag("start")

\* A destination of a visited rule, other than start, was undefined.
C8_Witness ==
    /\ result.kind = "UndefinedTag"
    /\ result.tag # "start"
    /\ Len(calls) >= 3

(* C30: a rule map with a rule under the tag `end` is never accepted:
   Table::new returns an error for it, whatever its other rules, since the
   walk passes over the destination `end` and so never visits that rule. *)
C30_EndRejected ==
    (result # NoResult /\ "end" \in DOMAIN table) =>
        /\ result.kind \in {"UndefinedTag", "RuleRecursion", "UnusedRules"}
        /\ \A i \in 1..Len(calls) : calls[i] # "end"
        /\ result.kind = "UnusedRules" => "end" \in result.unused

\* A map that is valid but for its rule `end` was turned down for that rule.
C30_Witness ==
    /\ result = UnusedRules({"end"})
    /\ Cardinality(DOMAIN table) = 3

\* The walk from `start` meets a tag that is no rule, or a cycle.
Broken(t) ==
    \/ \E k \in ReachFromStart(t) : k \notin DOMAIN t
    \/ \E k \in ReachFromStart(t) \cap DOMAIN t : OnCycle(t, k)

\* The destinations of a rule that are traversed, in their declared order.
WalkedDsts(r) == SelectSeq(Rule_dsts(r), LAMBDA d : d # "end")

(* C34: Table::new returns UnusedRules only when the walk from `start` ended
   without an error. When the walk meets an undefined destination or a
   recursion, the walk stops there and that one error is returned, with the
   tag of the last call of traverse, unreachable rules or not; destinations
   are walked in their declared order. *)
C34_ErrorPrecedence ==
    result # NoResult =>
        LET n == Len(calls)
        IN /\ calls[1] = "start"
           /\ \A i \in 1..(n - 1) : calls[i] \in DOMAIN table
           /\ (n >= 2 /\ "start" \in DOMAIN table)
                 => calls[2] = Head(WalkedDsts(table["start"]))
           /\ result.kind \in {"Ok", "UndefinedTag", "RuleRecursion", "UnusedRules"}
           /\ result.kind \in {"Ok", "UnusedRules"}
                 => ~Broken(table) /\ calls[n] \in DOMAIN table
           /\ Broken(table)
                 => /\ result.kind \in {"UndefinedTag", "RuleRecursion"}
                    /\ result.tag = calls[n]
                    /\ result.kind = "UndefinedTag" <=> calls[n] \notin DOMAIN table
                    /\ result.kind = "RuleRecursion"
                          => \E i \in 1..(n - 1) : calls[i] = calls[n]

\* A recursion was reported for a map that also has an unreachable rule.
C34_Witness ==
    /\ result.kind = "RuleRecursion"
    /\ Unreachable(table) # {}
    /\ Len(calls) >= 3

-----------------------------------------------------------------------------
(* Bounds of the Router model *)

\* the clock runs from 0 to MaxTime
MaxTime == 1
\* capacity of the response cache of the Router: UpstreamsBuilder::new(1)
CacheSize == 1

Tasks == {"t1", "t2"}

\* crate::MAX_TTL, the TTL of a record without answers; beyond every clock value.
MAX_TTL == 86400

-----------------------------------------------------------------------------
(* DNS messages: the header fields and sections the router reads or writes *)

NoMsg == [id |-> -1, op_code |-> "", qr |-> "", rd |-> FALSE, rcode |-> "",
          queries |-> <<>>, answers |-> <<>>]

Msg(id, op, qr, rd, rcode, queries, answers) ==
    [id |-> id, op_code |-> op, qr |-> qr, rd |-> rd, rcode |-> rcode,
     queries |-> queries, answers |-> answers]

\* Message::error_msg(id, op_code, rcode): a fresh response with these three set.
error_msg(id, op_code, rcode) ==
    Msg(id, op_code, "Response", FALSE, rcode, <<>>, <<>>)

\* The messages handed to resolve by task t: its own id, either opcode and
\* rd flag, with one question or none.
TaskId(t) == IF t = "t1" THEN 1 ELSE 2
InputMsgs(t) ==
    {Msg(TaskId(t), "Query", "Query", TRUE, "NoError", <<"q1">>, <<>>),
     Msg(TaskId(t), "Status", "Query", FALSE, "NoError", <<"q1">>, <<>>),
     Msg(TaskId(t), "Status", "Query", TRUE, "NoError", <<>>, <<>>)}

\* What an upstream may answer to req: the id of req echoed; the question
\* section echoed, with an answer of TTL 0 or none, or left out; or a failure
\* code.
UpstreamResponses(req) ==
    {Msg(req.id, "Query", "Response", TRUE, "NoError", req.queries, a) :
        a \in {<<>>, <<[ttl |-> 0]>>}}
    \cup {Msg(req.id, "Query", "Response", TRUE, "NoError", <<>>, <<>>),
          Msg(req.id, "Query", "Response", TRUE, "ServFail", req.queries, <<>>)}

-----------------------------------------------------------------------------
(* droute::router::upstreams::upstream::resp_cache *)

min_ttl(answers) ==
    CHOOSE m \in {answers[i].ttl : i \in 1..Len(answers)} :
        \A i \in 1..Len(answers) : m <= answers[i].ttl

\* CacheRecord::new with the TTL of the answers cut down to MAX_TTL.
CacheRecord_new_clamped(msg, t) ==
    [created_instant |-> t,
     msg |-> msg,
     ttl |-> IF msg.answers = <<>> \/ min_ttl(msg.answers) > MAX_TTL
             THEN MAX_TTL ELSE min_ttl(msg.answers)]

\* CacheRecord::new
CacheRecord_new(msg, t) ==
    [created_instant |-> t,
     msg |-> msg,
     ttl |-> IF msg.answers = <<>> THEN MAX_TTL ELSE min_ttl(msg.answers)]

\* CacheRecord::get
CacheRecord_get(r) == r.msg

\* Instant::saturating_duration_since
saturating_duration_since(t, earlier) == IF t >= earlier THEN t - earlier ELSE 0

\* CacheRecord::validate
CacheRecord_validate(r, t) ==
    saturating_duration_since(t, r.created_instant) <= r.ttl

\* RespCache::new(size)
RespCache_new(size) == [entries |-> <<>>, poisoned |-> FALSE, cap |-> size]

\* The lookup of a key comparing the question lists as sets of questions.
key_index_unordered(entries, tag, queries) ==
    {i \in 1..Len(entries) :
        /\ entries[i].tag = tag
        /\ {entries[i].queries[j] : j \in 1..Len(entries[i].queries)}
              = {queries[j] : j \in 1..Len(queries)}}

\* KeyPair::eq: the tags are equal and the question lists are equal.
key_index(entries, tag, queries) ==
    {i \in 1..Len(entries) : entries[i].tag = tag /\ entries[i].queries = queries}

without(entries, i) == SubSeq(entries, 1, i - 1) \o SubSeq(entries, i + 1, Len(entries))

\* CLruCache::put that evicts the most recently used entry of a full cache.
CLruCache_put_evicts_front(entries, cap, tag, queries, rec) ==
    LET e == [tag |-> tag, queries |-> queries, rec |-> rec]
        hit == key_index(entries, tag, queries)
    IN IF hit # {} THEN <<e>> \o without(entries, CHOOSE i \in hit : TRUE)
       ELSE IF Len(entries) >= cap
            THEN <<e>> \o Tail(entries)
            ELSE <<e>> \o entries

\* CLruCache::put: replace and refresh an entry of the key, else evict the
\* least recently used entry of a full cache; the entry goes to the front.
CLruCache_put(entries, cap, tag, queries, rec) ==
    LET e == [tag |-> tag, queries |-> queries, rec |-> rec]
        hit == key_index(entries, tag, queries)
    IN IF hit # {} THEN <<e>> \o without(entries, CHOOSE i \in hit : TRUE)
       ELSE IF Len(entries) >= cap
            THEN <<e>> \o SubSeq(entries, 1, cap - 1)
            ELSE <<e>> \o entries

\* CLruCache::get that leaves the order of use as it is.
CLruCache_get_in_place(entries, tag, queries) == entries

\* CLruCache::get: an entry found moves to the front.
CLruCache_get(entries, tag, queries) ==
    LET hit == key_index(entries, tag, queries)
    IN IF hit = {} THEN entries
       ELSE LET i == CHOOSE j \in hit : TRUE
            IN <<entries[i]>> \o without(entries, i)

\* RespCache::put that leaves a stored entry of the key as it is.
RespCache_put_if_absent(c, tag, msg, t) ==
    IF msg.rcode = "NoError"
    THEN IF c.poisoned THEN [cache |-> c, panic |-> TRUE]
         ELSE IF key_index(c.entries, tag, msg.queries) # {}
         THEN [cache |-> c, panic |-> FALSE]
         ELSE [cache |-> [c EXCEPT !.entries =
                            CLruCache_put(c.entries, c.cap, tag, msg.queries,
                                          CacheRecord_new(msg, t))],
               panic |-> FALSE]
    ELSE [cache |-> c, panic |-> FALSE]

\* RespCache::put without the test of the response code.
RespCache_put_any_rcode(c, tag, msg, t) ==
    IF c.poisoned THEN [cache |-> c, panic |-> TRUE]
    ELSE [cache |-> [c EXCEPT !.entries =
                       CLruCache_put(c.entries, c.cap, tag, msg.queries,
                                     CacheRecord_new(msg, t))],
          panic |-> FALSE]

\* RespCache::put at time t. lock().unwrap() panics on a poisoned mutex.
RespCache_put(c, tag, msg, t) ==
    IF msg.rcode = "NoError"
    THEN IF c.poisoned THEN [cache |-> c, panic |-> TRUE]
         ELSE [cache |-> [c EXCEPT !.entries =
                            CLruCache_put(c.entries, c.cap, tag, msg.queries,
                                          CacheRecord_new(msg, t))],
               panic |-> FALSE]
    ELSE [cache |-> c, panic |-> FALSE]

(* RespCache::get at time t: the status ("Alive", "Expired", "None", or
   "Panic"), the message and the cache after the call. On a hit the arguments
   of info! unwrap the first query of msg; they are evaluated when the level
   Info is enabled, and then, without a query, the call panics holding the
   lock, which poisons the mutex. *)
RespCache_get(c, tag, msg, t, info_enabled) ==
    IF c.poisoned THEN [status |-> "Panic", msg |-> NoMsg, cache |-> c]
    ELSE LET hit == key_index(c.entries, tag, msg.queries)
             touched == [c EXCEPT !.entries = CLruCache_get(c.entries, tag, msg.queries)]
         IN IF hit = {} THEN [status |-> "None", msg |-> NoMsg, cache |-> c]
            ELSE LET r == c.entries[CHOOSE i \in hit : TRUE].rec
                     resp == CacheRecord_get(r)
                 IN IF info_enabled /\ msg.queries = <<>>
                    THEN [status |-> "Panic", msg |-> NoMsg,
                          cache |-> [touched EXCEPT !.poisoned = TRUE]]
                    ELSE IF CacheRecord_validate(r, t)
                    THEN [status |-> "Alive", msg |-> resp, cache |-> touched]
                    ELSE [status |-> "Expired", msg |-> resp, cache |-> touched]

-----------------------------------------------------------------------------
(* droute::router: resolve, Table::route, rules and actions *)

\* Matcher::matches: `any` matches every state, `none` (its negation) no state.
Matcher_matches(m, query, resp) == m = "any"

IdleTask ==
    [pc |-> "idle",        \* idle, rule, action, upstream, done or panicked
     msg |-> NoMsg,        \* the message handed to resolve
     query |-> NoMsg,      \* State.query
     resp |-> NoMsg,       \* State.resp
     tag |-> "",           \* the tag of the routing loop
     todo |-> <<>>,        \* the actions of the chosen branch still to run
     next |-> "",          \* the next tag of the chosen branch
     stale |-> NoMsg,      \* the expired record held while the upstream is asked
     ret |-> NoMsg,        \* the message resolve returned
     ret_kind |-> "",      \* "Ok" or "Err": the arm of the Result resolve returned
     route_err |-> FALSE,  \* history: Table::route returned Err
     got |-> "",           \* history: what the cache lookup of the action gave
     up |-> "",            \* history: "ok" or "err", how its upstream call ended
     up_msg |-> NoMsg,     \* history: what the upstream answered
     put_at |-> 0,         \* history: order number of its last storing put
     put_tag |-> "",       \* history: the tag of that put
     put_msg |-> NoMsg,    \* history: the response of that put
     n_rules |-> 0,        \* history: rules evaluated
     n_upstream |-> 0,     \* history: upstream queries made
     n_cache |-> 0]        \* history: calls of RespCache::get and put

\* A branch hands over to the next rule when its actions are done.
branch_continue(task) ==
    IF task.todo = <<>>
    THEN [task EXCEPT !.pc = "rule", !.tag = task.next]
    ELSE [task EXCEPT !.pc = "action"]

\* Router::resolve, lines 65-69, handing the error of route on to the caller.
resolve_error_propagates(task) ==
    [task EXCEPT !.pc = "done", !.route_err = TRUE, !.ret_kind = "Err"]

\* Router::resolve, lines 65-69: an error of route becomes a SERVFAIL.
resolve_error(task) ==
    [task EXCEPT !.pc = "done", !.route_err = TRUE, !.ret_kind = "Ok",
                 !.ret = error_msg(task.msg.id, task.msg.op_code, "ServFail")]

\* Table::route, lines 199-207: the state of a query, at the tag `start`.
\* first_question().unwrap() panics on a message without questions;
\* to_dname()? fails on a name that does not parse (name_ok false).
Table_route_begin(task, query, name_ok) ==
    IF query.queries = <<>>
    THEN [task EXCEPT !.pc = "panicked", !.msg = query]
    ELSE IF ~name_ok
    THEN resolve_error([task EXCEPT !.msg = query])
    ELSE [task EXCEPT !.pc = "rule", !.msg = query, !.query = query,
                      !.resp = query, !.tag = "start"]

\* Table::route, lines 218-228, leaving the id of the response in place.
route_finish_keeps_id(query, resp) ==
    [resp EXCEPT !.qr = "Response", !.op_code = query.op_code,
                 !.rd = query.rd, !.rcode = resp.rcode]

\* Table::route, lines 218-228, without the line that sets rd.
route_finish_keeps_rd(query, resp) ==
    [resp EXCEPT !.id = query.id, !.qr = "Response", !.op_code = query.op_code,
                 !.rcode = resp.rcode]

\* Table::route, lines 218-228: the header of the response is reset.
route_finish(query, resp) ==
    [resp EXCEPT !.id = query.id, !.qr = "Response", !.op_code = query.op_code,
                 !.rd = query.rd, !.rcode = resp.rcode]

\* Router::resolve without the test of line 62: every message is routed.
Router_resolve_unchecked(task, msg, name_ok) == Table_route_begin(task, msg, name_ok)

\* Router::resolve, lines 59-62 and 71-74: a message without questions is
\* answered SERVFAIL at once, any other is routed.
Router_resolve(task, msg, name_ok) ==
    IF ~is_empty(msg.queries)
    THEN Table_route_begin(task, msg, name_ok)
    ELSE [task EXCEPT !.pc = "done", !.msg = msg, !.ret_kind = "Ok",
                      !.ret = error_msg(msg.id, msg.op_code, "ServFail")]

\* One turn of the loop of Table::route, lines 208-215, up to the choice of
\* the branch; at `end`, lines 216-228 and the Ok arm of resolve, unless
\* Message::from_octets()? fails (octets_ok false).
Table_route_loop(task, rs, octets_ok) ==
    IF task.tag = "end"
    THEN IF octets_ok
         THEN [task EXCEPT !.pc = "done", !.ret_kind = "Ok",
                           !.ret = route_finish(task.query, task.resp)]
         ELSE resolve_error(task)
    ELSE IF task.tag \notin DOMAIN rs
    THEN [task EXCEPT !.pc = "panicked"]
    ELSE LET r == rs[task.tag]
             b == IF r.kind = "seq" \/ Matcher_matches(r.matcher, task.query, task.resp)
                  THEN r.on_match ELSE r.no_match
         IN branch_continue([task EXCEPT !.todo = b.actions, !.next = b.next,
                                         !.n_rules = task.n_rules + 1])

\* The action at the head of the branch is done.
action_done(task) == branch_continue([task EXCEPT !.todo = Tail(task.todo)])

\* Action::act asking the cache in every mode.
Action_act_any_mode(task, c, t, info_enabled) ==
    LET a == Head(task.todo)
        fresh == [task EXCEPT !.got = "", !.up = "", !.up_msg = NoMsg]
        g == RespCache_get(c, a.tag, task.resp, t, info_enabled)
        asked == [fresh EXCEPT !.n_cache = task.n_cache + 1, !.got = g.status]
    IN IF a.kind = "skip" THEN [task |-> action_done(fresh), cache |-> c]
       ELSE [cache |-> g.cache,
             task |->
               CASE g.status = "Alive" ->
                      action_done([asked EXCEPT !.resp = g.msg])
                 [] g.status = "Expired" ->
                      [asked EXCEPT !.pc = "upstream", !.stale = g.msg]
                 [] g.status = "None" ->
                      [asked EXCEPT !.pc = "upstream", !.stale = NoMsg]
                 [] OTHER -> [asked EXCEPT !.pc = "panicked"]]

(* The synchronous part of an action. Query: unless the mode is disabled the
   cache is asked for (tag, state.resp); an alive record becomes state.resp,
   otherwise the upstream is asked next, an expired record being held. *)
Action_act(task, c, t, info_enabled) ==
    LET a == Head(task.todo) IN
    LET fresh == [task EXCEPT !.got = "", !.up = "", !.up_msg = NoMsg] IN
    IF a.kind = "skip" THEN [task |-> action_done(fresh), cache |-> c]
    ELSE IF a.mode = "disabled"
    THEN [task |-> [fresh EXCEPT !.pc = "upstream", !.stale = NoMsg], cache |-> c]
    ELSE LET g == RespCache_get(c, a.tag, task.resp, t, info_enabled)
             asked == [fresh EXCEPT !.n_cache = task.n_cache + 1, !.got = g.status]
         IN [cache |-> g.cache,
             task |->
               CASE g.status = "Alive" ->
                      action_done([asked EXCEPT !.resp = g.msg])
                 [] g.status = "Expired" ->
                      [asked EXCEPT !.pc = "upstream", !.stale = g.msg]
                 [] g.status = "None" ->
                      [asked EXCEPT !.pc = "upstream", !.stale = NoMsg]
                 [] OTHER -> [asked EXCEPT !.pc = "panicked"]]

(* The upstream answered r: unless the mode is disabled the answer is put
   into the cache; it becomes state.resp. seq numbers the puts that store. *)
Action_upstream_ok(task, c, t, r, seq) ==
    LET a == Head(task.todo)
        asked == [task EXCEPT !.n_upstream = task.n_upstream + 1, !.stale = NoMsg,
                              !.up = "ok", !.up_msg = r]
    IN IF a.mode = "disabled"
       THEN [task |-> action_done([asked EXCEPT !.resp = r]), cache |-> c]
       ELSE LET p == RespCache_put(c, a.tag, r, t)
                called == [asked EXCEPT !.n_cache = asked.n_cache + 1]
                stored == IF r.rcode = "NoError" /\ ~p.panic
                          THEN [called EXCEPT !.put_at = seq, !.put_tag = a.tag,
                                              !.put_msg = r]
                          ELSE called
            IN [cache |-> p.cache,
                task |-> IF p.panic THEN [stored EXCEPT !.pc = "panicked"]
                         ELSE action_done([stored EXCEPT !.resp = r])]

\* The upstream failed: an expired record held is served, in every mode.
Action_upstream_err_serves_stale(task) ==
    LET asked == [task EXCEPT !.n_upstream = task.n_upstream + 1, !.stale = NoMsg,
                              !.up = "err"]
    IN IF task.stale # NoMsg
       THEN action_done([asked EXCEPT !.resp = task.stale])
       ELSE resolve_error(asked)

(* The upstream failed: in mode persist an expired record held is served,
   otherwise the error leaves route and resolve answers SERVFAIL. *)
Action_upstream_err(task) ==
    LET a == Head(task.todo)
        asked == [task EXCEPT !.n_upstream = task.n_upstream + 1, !.stale = NoMsg,
                              !.up = "err"]
    IN IF a.mode = "persist" /\ task.stale # NoMsg
       THEN action_done([asked EXCEPT !.resp = task.stale])
       ELSE resolve_error(asked)

-----------------------------------------------------------------------------
(* The Router state machine *)

\* The table of the test test_resolve; two Query actions in a row; the modes
\* standard and disabled.
TableOfTest ==
    [k \in {"start"} |->
        IfBlock("any", Branch(<<Query("mock", "persist")>>, "end"), Branch(<<>>, "end"))]
TableOfTwo ==
    [k \in {"start", "foo"} |->
        IF k = "start" THEN SeqBlock(Branch(<<Query("mock", "persist")>>, "foo"))
        ELSE IfBlock("none", Branch(<<Skip>>, "end"),
                             Branch(<<Query("mock", "persist")>>, "end"))]
TableOfModes ==
    [k \in {"start", "foo"} |->
        IF k = "start" THEN SeqBlock(Branch(<<Query("mock", "standard")>>, "foo"))
        ELSE SeqBlock(Branch(<<Skip, Query("mock", "disabled")>>, "end"))]

\* Router::new takes a Table, which only Table::new makes.
RouterTables ==
    {t \in {TableOfTest, TableOfTwo, TableOfModes} : Table_new(t).kind = "Ok"}

RouterInit ==
    /\ rules \in RouterTables
    /\ log_info \in BOOLEAN
    /\ cache = RespCache_new(CacheSize)
    /\ now = 0
    /\ tasks = [t \in Tasks |-> IdleTask]

\* the order number of the next put that stores
next_put ==
    1 + CHOOSE n \in {tasks[u].put_at : u \in Tasks} :
            \A u \in Tasks : tasks[u].put_at <= n

\* router.resolve(msg), up to the first turn of the routing loop
Resolve(t, msg, name_ok) ==
    /\ tasks[t].pc = "idle"
    /\ tasks' = [tasks EXCEPT ![t] = Router_resolve(tasks[t], msg, name_ok)]
    /\ UNCHANGED <<rules, log_info, cache, now>>

\* one turn of the routing loop: the rule of the tag chooses its branch
RouteLoop(t, octets_ok) ==
    /\ tasks[t].pc = "rule"
    /\ tasks' = [tasks EXCEPT ![t] = Table_route_loop(tasks[t], rules, octets_ok)]
    /\ UNCHANGED <<rules, log_info, cache, now>>

\* the next action of the branch runs up to its await
Act(t) ==
    /\ tasks[t].pc = "action"
    /\ LET a == Action_act(tasks[t], cache, now, log_info)
       IN /\ tasks' = [tasks EXCEPT ![t] = a.task]
          /\ cache' = a.cache
    /\ UNCHANGED <<rules, log_info, now>>

\* the upstream answers
UpstreamOk(t, r) ==
    /\ tasks[t].pc = "upstream"
    /\ LET a == Action_upstream_ok(tasks[t], cache, now, r, next_put)
       IN /\ tasks' = [tasks EXCEPT ![t] = a.task]
          /\ cache' = a.cache
    /\ UNCHANGED <<rules, log_info, now>>

\* the upstream fails (transport error, timeout)
UpstreamErr(t) ==
    /\ tasks[t].pc = "upstream"
    /\ tasks' = [tasks EXCEPT ![t] = Action_upstream_err(tasks[t])]
    /\ UNCHANGED <<rules, log_info, cache, now>>

\* time passes
Tick ==
    /\ now < MaxTime
    /\ now' = now + 1
    /\ UNCHANGED <<rules, log_info, cache, tasks>>

-----------------------------------------------------------------------------
(* The RespCache state machine: put and get called directly *)

\* the capacities the cache is built with
Capacities == {1, 2}

CacheTags == {"mock", "alt"}
CacheQueries == {<<"q1">>, <<>>}
CacheAnswers == {<<>>, <<[ttl |-> 1]>>, <<[ttl |-> 1], [ttl |-> 0]>>}

\* The responses handed to put: NoError with any of the answer sections, or
\* a failure code.
PutMsgs ==
    {Msg(0, "Query", "Response", TRUE, "NoError", q, a) :
        q \in CacheQueries, a \in CacheAnswers}
    \cup {Msg(0, "Query", "Response", TRUE, "ServFail", q, <<[ttl |-> 1]>>) :
        q \in CacheQueries}

\* The messages handed to get: only their question list is read.
GetMsgs == {Msg(1, "Query", "Query", TRUE, "NoError", q, <<>>) : q \in CacheQueries}

EntrySet(c) == {c.entries[i] : i \in 1..Len(c.entries)}

NoCacheOp ==
    [op |-> "new", tag |-> "", msg |-> NoMsg, status |-> "", resp |-> NoMsg,
     before |-> RespCache_new(1), at |-> 0, seen |-> {}, recency |-> <<>>,
     lru |-> <<>>, hits |-> {}, revived |-> FALSE]

KeyOf(e) == <<e.tag, e.queries>>
Keys(c) == {KeyOf(e) : e \in EntrySet(c)}

\* history of use: the keys stored, the one most recently stored by a put or
\* found by a get first
RECURSIVE drop_key(_, _)
drop_key(ks, k) ==
    IF ks = <<>> THEN <<>>
    ELSE IF Head(ks) = k THEN drop_key(Tail(ks), k)
    ELSE <<Head(ks)>> \o drop_key(Tail(ks), k)
RECURSIVE keep_keys(_, _)
keep_keys(ks, S) ==
    IF ks = <<>> THEN <<>>
    ELSE IF Head(ks) \in S THEN <<Head(ks)>> \o keep_keys(Tail(ks), S)
    ELSE keep_keys(Tail(ks), S)
used(ks, k, c) == keep_keys(<<k>> \o drop_key(ks, k), Keys(c))
\* the least recently used key
least_used(ks) == IF ks = <<>> THEN <<>> ELSE ks[Len(ks)]

CacheInit ==
    /\ \E size \in Capacities : cache = RespCache_new(size)
    /\ log_info \in BOOLEAN
    /\ now = 0
    /\ cacheOp = NoCacheOp
    /\ rules = EmptyMap
    /\ tasks = [t \in Tasks |-> IdleTask]

\* cache.put(tag, msg)
CachePut(tag, msg) ==
    LET p == RespCache_put(cache, tag, msg, now) IN
    /\ cache' = p.cache
    /\ cacheOp' = [op |-> "put", tag |-> tag, msg |-> msg,
                   status |-> IF p.panic THEN "Panic" ELSE "Returned",
                   resp |-> NoMsg, before |-> cache, at |-> now,
                   seen |-> cacheOp.seen \cap EntrySet(p.cache),
                   recency |-> IF msg.rcode = "NoError" /\ ~p.panic
                               THEN used(cacheOp.recency, <<tag, msg.queries>>, p.cache)
                               ELSE cacheOp.recency,
                   lru |-> least_used(cacheOp.recency),
                   hits |-> IF cacheOp.op = "put" THEN {} ELSE cacheOp.hits,
                   revived |-> FALSE]
    /\ UNCHANGED <<rules, log_info, now, tasks>>

\* cache.get(tag, msg); seen collects the entries a get reported Expired,
\* as long as they are stored, hits the keys the gets since the last put
\* reported Alive or Expired; revived says that the call before was a put
\* that stored a response under the key of this get in place of a record
\* whose TTL had passed.
CacheGet(tag, msg) ==
    LET g == RespCache_get(cache, tag, msg, now, log_info)
        hit == {e \in EntrySet(cache) : e.tag = tag /\ e.queries = msg.queries}
    IN
    /\ cache' = g.cache
    /\ cacheOp' = [op |-> "get", tag |-> tag, msg |-> msg,
                   status |-> g.status, resp |-> g.msg, before |-> cache, at |-> now,
                   seen |-> IF g.status = "Expired" THEN cacheOp.seen \cup hit
                            ELSE cacheOp.seen,
                   recency |-> IF hit # {} /\ ~cache.poisoned
                               THEN used(cacheOp.recency, <<tag, msg.queries>>, g.cache)
                               ELSE cacheOp.recency,
                   lru |-> least_used(cacheOp.recency),
                   hits |-> (IF cacheOp.op = "put" THEN {} ELSE cacheOp.hits)
                            \cup (IF g.status \in {"Alive", "Expired"}
                                  THEN {<<tag, msg.queries>>} ELSE {}),
                   revived |->
                       /\ cacheOp.op = "put" /\ cacheOp.status = "Returned"
                       /\ cacheOp.msg.rcode = "NoError"
                       /\ cacheOp.tag = tag /\ cacheOp.msg.queries = msg.queries
                       /\ \E e \in EntrySet(cacheOp.before) :
                             /\ KeyOf(e) = <<tag, msg.queries>>
                             /\ ~CacheRecord_validate(e.rec, cacheOp.at)]
    /\ UNCHANGED <<rules, log_info, now, tasks>>

-----------------------------------------------------------------------------
(* CacheRecord::new, applied once to a response *)

MaxAnswers == 3

\* TTLs of answer records: none, one second, MAX_TTL and more than MAX_TTL.
AnswerTTLs == {0, 1, MAX_TTL, MAX_TTL + 1}
AnswerSections ==
    UNION {[1..n -> {[ttl |-> x] : x \in AnswerTTLs}] : n \in 0..MaxAnswers}

NoRecord == [created_instant |-> -1, msg |-> NoMsg, ttl |-> -1]

RecordInit ==
    /\ record_msg \in {Msg(0, "Query", "Response", TRUE, "NoError", <<"q1">>, a) :
                          a \in AnswerSections}
    /\ record = NoRecord

\* CacheRecord::new(record_msg)
RecordNew ==
    /\ record = NoRecord
    /\ record' = CacheRecord_new(record_msg, 0)
    /\ UNCHANGED record_msg

(* C28: the TTL of a record is the least TTL among the answers of its
   response when there is an answer, be it 0 or more than MAX_TTL, and is
   MAX_TTL when the response has no answer. *)
C28_RecordTTL ==
    record # NoRecord =>
        LET as == record.msg.answers
        IN /\ record.msg = record_msg
           /\ IF as = <<>> THEN record.ttl = MAX_TTL
              ELSE /\ \E i \in 1..Len(as) : record.ttl = as[i].ttl
                   /\ \A i \in 1..Len(as) : record.ttl <= as[i].ttl

\* A record was made of a response whose answers all have a TTL above MAX_TTL.
C28_Witness ==
    /\ record # NoRecord
    /\ record.msg.answers # <<>>
    /\ record.ttl > MAX_TTL

-----------------------------------------------------------------------------
(* Router::new and RouterBuilder::try_into *)

NoRouter == [kind |-> "none"]
MissingTag(u) == [kind |-> "MissingTag", missing |-> u]

\* Table::validate: the walk of Table::new over the rules of the table.
Table_validate(table_) ==
    LET walked == traverse(new_bucket(table_.rules), "start")
    IN IF walked.err # NoResult THEN walked.err
       ELSE IF unused_of(walked.bucket) # {}
            THEN UnusedRules(unused_of(walked.bucket))
            ELSE Ok({})

\* Upstreams::validate(Some(used_upstreams)): every used tag is a declared upstream.
Upstreams_validate(upstreams, used_upstreams) ==
    IF used_upstreams \subseteq upstreams THEN Ok({})
    ELSE MissingTag(used_upstreams \ upstreams)

\* Router::validate
Router_validate(table_, upstreams) ==
    IF Table_validate(table_).kind # "Ok" THEN Table_validate(table_)
    ELSE Upstreams_validate(upstreams, table_.used_upstreams)

\* Router::new without the call of validate.
Router_new_unvalidated(table_, upstreams) ==
    [kind |-> "Router", table |-> table_, upstreams |-> upstreams]

\* Router::new
Router_new(table_, upstreams) ==
    IF Router_validate(table_, upstreams).kind # "Ok"
    THEN Router_validate(table_, upstreams)
    ELSE [kind |-> "Router", table |-> table_, upstreams |-> upstreams]

\* RouterBuilder::try_into: the table is built by Table::new, whose error is
\* returned, and handed to Router::new.
RouterBuilder_try_into(rs, upstreams) ==
    IF Table_new(rs).kind # "Ok" THEN Table_new(rs)
    ELSE Router_new([rules |-> rs,
                     used_upstreams |-> Table_new(rs).used_upstreams],
                    upstreams)

UpstreamTags == {"mock", "alt"}
\* The rule maps of the builders: rules under the tags start and foo.
BuildMaps == {t \in RuleMaps : DOMAIN t \subseteq {"start", "foo"}}

BuildInit ==
    /\ build_rules \in BuildMaps
    /\ build_upstreams \in SUBSET UpstreamTags
    /\ router = NoRouter

\* RouterBuilder::new(table, upstreams).try_into()
BuildRouter ==
    /\ router = NoRouter
    /\ router' = RouterBuilder_try_into(build_rules, build_upstreams)
    /\ UNCHANGED <<build_rules, build_upstreams>>

\* The upstream tags of the Query actions of the rules reachable from start.
ReachableUpstreams(t) ==
    UNION {Rule_used_upstreams(t[k]) : k \in ReachFromStart(t) \cap DOMAIN t}

(* C29: a Router is made only of a rule map that validates (start is a rule,
   every rule is reachable, there is no cycle and every destination is a rule
   or `end`) whose reachable Query actions name declared upstreams only; in
   every other case what is returned is an error and no Router. *)
C29_RouterNew ==
    /\ router.kind = "Router" =>
          /\ "start" \in DOMAIN build_rules
          /\ AllReachable(build_rules) /\ NoCycle(build_rules)
          /\ AllDefined(build_rules)
          /\ ReachableUpstreams(build_rules) \subseteq build_upstreams
          /\ router.table.rules = build_rules
          /\ router.table.used_upstreams = ReachableUpstreams(build_rules)
    /\ router.kind \in {"none", "Router", "UndefinedTag", "RuleRecursion",
                        "UnusedRules", "MissingTag"}

\* A valid table that queries an upstream the registry does not declare was
\* turned down.
C29_Witness ==
    /\ router.kind = "MissingTag"
    /\ router.missing = {"mock"}
    /\ "alt" \in build_upstreams

-----------------------------------------------------------------------------
(* RespCache under keys that differ in the tag, in the questions or in the
   order of the questions only *)

\* Question lists: two questions in either order, and the first one alone.
KeyQueries == {<<"q1", "q2">>, <<"q2", "q1">>, <<"q1">>}
\* The keys used: one tag with every question list, the other tag with one.
KeySpace == {<<"mock", q>> : q \in KeyQueries} \cup {<<"alt", <<"q1", "q2">>>>}

\* Two responses to each question list, told apart by their id, and a failure.
KeyPutMsgs ==
    {Msg(i, "Query", "Response", TRUE, "NoError", q, <<>>) :
        i \in {0, 1}, q \in KeyQueries}
    \cup {Msg(0, "Query", "Response", TRUE, "ServFail", <<"q1">>, <<>>)}
KeyGetMsgs == {Msg(2, "Query", "Query", TRUE, "NoError", q, <<>>) : q \in KeyQueries}

KeyInit ==
    /\ \E size \in Capacities : cache = RespCache_new(size)
    /\ log_info = TRUE
    /\ now = 0
    /\ cacheOp = NoCacheOp
    /\ rules = EmptyMap
    /\ tasks = [t \in Tasks |-> IdleTask]
    /\ last_put = [k \in KeySpace |-> NoMsg]

\* cache.put(tag, msg), remembered under its key when it stores
KeyPut(tag, msg) ==
    /\ CachePut(tag, msg)
    /\ last_put' = IF msg.rcode = "NoError" /\ ~RespCache_put(cache, tag, msg, now).panic
                   THEN [last_put EXCEPT ![<<tag, msg.queries>>] = msg]
                   ELSE last_put

\* cache.get(tag, msg)
KeyGet(tag, msg) ==
    /\ CacheGet(tag, msg)
    /\ UNCHANGED last_put

-----------------------------------------------------------------------------
(* The loop of Table::route over the rule maps Table::new accepts. What the
   matcher of an IfBlock says and whether the actions of the chosen branch
   succeed are inputs of each turn. *)

MaxRouteSteps == 4

\* The tables that exist: Table::new is the only constructor of Table.
AcceptedTables == {t \in RuleMaps \cup RuleMapsWithEnd : Table_new(t).kind = "Ok"}

\* One turn of the loop, lines 207-215: rules.get(tag).unwrap() panics on a
\* missing rule; route(..) returns the next tag of the branch taken, and `?`
\* leaves the loop when an action fails.
Table_route_turn(rs, tag, matched, acted) ==
    IF tag \notin DOMAIN rs
    THEN [pc |-> "panicked", tag |-> tag]
    ELSE LET r == rs[tag]
             b == IF r.kind = "seq" \/ matched THEN r.on_match ELSE r.no_match
         IN IF b.actions # <<>> /\ ~acted
            THEN [pc |-> "error", tag |-> tag]
            ELSE [pc |-> "loop", tag |-> b.next]

RouteInit ==
    /\ route_rules \in AcceptedTables
    /\ route_tag = "start"
    /\ route_path = <<>>
    /\ route_pc = "loop"

\* while tag != "end" { tag = rules.get(tag).unwrap().route(..).await? }
RouteTurn(matched, acted) ==
    /\ route_pc = "loop"
    /\ route_tag # "end"
    /\ Len(route_path) < MaxRouteSteps
    /\ LET turn == Table_route_turn(route_rules, route_tag, matched, acted)
       IN /\ route_pc' = turn.pc
          /\ route_tag' = turn.tag
    /\ route_path' = Append(route_path, route_tag)
    /\ UNCHANGED route_rules

\* The loop is left at the tag `end`.
RouteEnd ==
    /\ route_pc = "loop"
    /\ route_tag = "end"
    /\ route_pc' = "done"
    /\ UNCHANGED <<route_rules, route_tag, route_path>>

-----------------------------------------------------------------------------
(* Claims about the loop of Table::route *)

(* C22: in an accepted table the tag of the routing loop is always a rule of
   the table or `end`, so rules.get(tag).unwrap() never panics. *)
C22_RuleFound ==
    /\ route_pc # "panicked"
    /\ route_pc = "loop" => route_tag \in (DOMAIN route_rules) \cup {"end"}

\* The loop went through three rules of a table and was left at `end`.
C22_Witness == route_pc = "done" /\ Len(route_path) = 3

(* C23: the routing loop invokes at most |rules| rules and no tag twice, so
   it is left, at `end` or with an error, after at most |rules| turns. *)
C23_RouteTerminates ==
    /\ Len(route_path) <= Cardinality(DOMAIN route_rules)
    /\ \A i, j \in 1..Len(route_path) :
          route_path[i] = route_path[j] => i = j
    /\ (route_pc = "loop" /\ route_tag # "end")
          => Len(route_path) < Cardinality(DOMAIN route_rules)

\* Every rule of a table of three was invoked once, the last one failing.
C23_Witness ==
    /\ route_pc = "error"
    /\ Len(route_path) = 3
    /\ Cardinality(DOMAIN route_rules) = 3

-----------------------------------------------------------------------------
(* Claims about Router::resolve *)

Returned(t) == tasks[t].pc = "done"

\* C9: whatever path resolve takes (upstream answer, cache hit, routing error,
\* empty question section), the message it returns carries the id and the
\* opcode of the query and is a response.
C9_HeaderNormalization ==
    \A t \in Tasks :
        Returned(t) =>
            /\ tasks[t].ret.id = tasks[t].msg.id
            /\ tasks[t].ret.op_code = tasks[t].msg.op_code
            /\ tasks[t].ret.qr = "Response"

\* A query with the opcode Status was answered from the cache alone, by a
\* record that carries the id of the other query.
C9_Witness ==
    \E t \in Tasks :
        /\ Returned(t)
        /\ tasks[t].msg.op_code = "Status"
        /\ tasks[t].n_upstream = 0 /\ tasks[t].n_cache > 0
        /\ tasks[t].resp.id \notin {0, tasks[t].msg.id}
        /\ tasks[t].ret = [tasks[t].resp EXCEPT !.id = tasks[t].msg.id,
                                                 !.op_code = "Status",
                                                 !.rd = tasks[t].msg.rd]

\* route returned Ok: resolve returned and neither the question list was
\* empty nor an error left route
RouteOk(t) == Returned(t) /\ ~tasks[t].route_err /\ tasks[t].msg.queries # <<>>

\* C11: resolve never returns Err; when Table::route fails (upstream failure,
\* a name or message that does not parse) resolve returns Ok with a SERVFAIL
\* of the id and opcode of the query.
C11_NeverErr ==
    \A t \in Tasks :
        Returned(t) =>
            /\ tasks[t].ret_kind = "Ok"
            /\ tasks[t].route_err =>
                 tasks[t].ret = error_msg(tasks[t].msg.id, tasks[t].msg.op_code, "ServFail")

\* A query of opcode Status was answered SERVFAIL after its upstream failed.
C11_Witness ==
    \E t \in Tasks :
        /\ Returned(t) /\ tasks[t].route_err
        /\ tasks[t].n_upstream > 0
        /\ tasks[t].msg.op_code = "Status"
        /\ tasks[t].ret.rcode = "ServFail" /\ tasks[t].ret.op_code = "Status"

\* C12: when routing reaches `end` without error the message returned is the
\* final state.resp with its header overwritten: questions, answers and rcode
\* are those of state.resp (with the single rule Query(mock): those of the
\* upstream's answer), rd is that of the query.
C12_FinalResp ==
    \A t \in Tasks :
        RouteOk(t) =>
            /\ tasks[t].ret.answers = tasks[t].resp.answers
            /\ tasks[t].ret.queries = tasks[t].resp.queries
            /\ tasks[t].ret.rcode = tasks[t].resp.rcode
            /\ tasks[t].ret.rd = tasks[t].msg.rd
            /\ (rules = TableOfTest /\ tasks[t].n_upstream = 1 /\ tasks[t].put_at > 0) =>
                   /\ tasks[t].ret.answers = tasks[t].put_msg.answers
                   /\ tasks[t].ret.rcode = tasks[t].put_msg.rcode

\* A query with rd unset was answered by the answers of an upstream response
\* that has rd set.
C12_Witness ==
    \E t \in Tasks :
        /\ RouteOk(t)
        /\ rules = TableOfTest /\ tasks[t].n_upstream = 1 /\ tasks[t].put_at > 0
        /\ tasks[t].ret.answers # <<>>
        /\ ~tasks[t].msg.rd /\ tasks[t].resp.rd

\* A message without questions is answered by a SERVFAIL of its id and opcode;
\* no rule was evaluated, no upstream asked, no cache call made for it.
C10_Answered ==
    \A t \in Tasks :
        (tasks[t].msg # NoMsg /\ tasks[t].msg.queries = <<>>) =>
            /\ Returned(t)
            /\ tasks[t].ret = error_msg(tasks[t].msg.id, tasks[t].msg.op_code, "ServFail")
            /\ tasks[t].n_rules = 0
            /\ tasks[t].n_upstream = 0
            /\ tasks[t].n_cache = 0

\* The step that answers a message without questions leaves the cache as it is.
C10_CacheUntouched ==
    [][\A t \in Tasks :
         (tasks[t].pc = "idle" /\ tasks'[t].pc # "idle" /\ tasks'[t].msg.queries = <<>>)
            => cache' = cache]_vars

\* C10: a message without questions handed to resolve is answered by a
\* SERVFAIL of its id and opcode, and for it no rule is evaluated, no upstream
\* is asked and the cache is neither read nor written.
C10_EmptyQuestionServfail == []C10_Answered /\ C10_CacheUntouched

\* A message of opcode Status without questions was answered while the cache
\* held a record.
C10_Witness ==
    \E t \in Tasks :
        /\ Returned(t)
        /\ tasks[t].msg.queries = <<>>
        /\ tasks[t].msg.op_code = "Status"
        /\ tasks[t].ret.rcode = "ServFail"
        /\ cache.entries # <<>>

-----------------------------------------------------------------------------
(* Claims about RespCache *)

\* the entry the last get found, if any
GetHit == {e \in EntrySet(cacheOp.before) :
              e.tag = cacheOp.tag /\ e.queries = cacheOp.msg.queries}

\* the minimum TTL of the answers of a stored response
MinAnswerTTL(msg) ==
    CHOOSE T \in {msg.answers[i].ttl : i \in 1..Len(msg.answers)} :
        \A i \in 1..Len(msg.answers) : T <= msg.answers[i].ttl

\* C13: a get that returns, on an entry put at t0 whose response has the
\* minimum answer TTL T, returns Alive at every time before t0 + T and Expired
\* at every time from t0 + T on, t0 + T included.
C13_CacheTTL ==
    (cacheOp.op = "get" /\ cacheOp.status # "Panic") =>
        \A e \in GetHit :
            e.rec.msg.answers # <<>> =>
                LET T == MinAnswerTTL(e.rec.msg)
                    t0 == e.rec.created_instant
                IN /\ cacheOp.at < t0 + T => cacheOp.status = "Alive"
                   /\ cacheOp.at >= t0 + T => cacheOp.status = "Expired"

\* C14: a put of a response whose rcode is not NoError leaves the cache as it
\* was (entries, their order), and every stored response has rcode NoError.
C14_ErrorsNotStored ==
    /\ (cacheOp.op = "put" /\ cacheOp.msg.rcode # "NoError") => cache = cacheOp.before
    /\ \A e \in EntrySet(cache) : e.rec.msg.rcode = "NoError"

\* A failure response was put under the key of a stored entry of a full cache.
C14_Witness ==
    /\ cacheOp.op = "put" /\ cacheOp.msg.rcode = "ServFail"
    /\ <<cacheOp.tag, cacheOp.msg.queries>> \in Keys(cache)
    /\ Len(cache.entries) = cache.cap

\* the last call was a put that stored its response
Stored == cacheOp.op = "put" /\ cacheOp.status = "Returned" /\ cacheOp.msg.rcode = "NoError"
PutKey == <<cacheOp.tag, cacheOp.msg.queries>>

\* C15: the cache never holds more entries than its capacity, nor two under
\* one key; a put of a new key into a full cache evicts exactly the least
\* recently used entry, a put into a cache that is not full or under a stored
\* key evicts nothing.
C15_Capacity ==
    /\ Len(cache.entries) <= cache.cap
    /\ Cardinality(Keys(cache)) = Len(cache.entries)
    /\ Stored =>
         LET old == {e \in EntrySet(cacheOp.before) : KeyOf(e) # PutKey}
             kept == {e \in EntrySet(cache) : KeyOf(e) # PutKey}
         IN /\ PutKey \in Keys(cache)
            /\ IF PutKey \notin Keys(cacheOp.before)
                  /\ Len(cacheOp.before.entries) = cacheOp.before.cap
               THEN /\ kept \subseteq old
                    /\ Cardinality(old \ kept) = 1
                    /\ \A e \in old \ kept : KeyOf(e) = cacheOp.lru
               ELSE kept = old

\* A put of a new key into a full cache of capacity 2 evicted the entry put
\* last, because the entry put first had been hit by a get since.
C15_Witness ==
    /\ Stored
    /\ cacheOp.before.cap = 2 /\ Len(cacheOp.before.entries) = 2
    /\ PutKey \notin Keys(cacheOp.before)
    /\ \E e \in EntrySet(cache) : \E f \in EntrySet(cacheOp.before) \ EntrySet(cache) :
          KeyOf(e) # PutKey /\ e.rec.created_instant < f.rec.created_instant

\* C16: a get leaves the stored records as they are, and a get on an entry
\* that a get reported Expired (the entry neither put again nor evicted
\* since) reports Expired again, with the same response.
C16_GetKeepsRecords ==
    cacheOp.op = "get" =>
        /\ EntrySet(cache) = EntrySet(cacheOp.before)
        /\ \A e \in GetHit :
              e \in cacheOp.seen =>
                  cacheOp.status = "Expired" /\ cacheOp.resp = e.rec.msg

\* the last call was a get that reported a record
Hit == cacheOp.op = "get" /\ cacheOp.status \in {"Alive", "Expired"}

\* the last call was a put that stored a response under a key not yet stored
StoredNew == Stored /\ PutKey \notin Keys(cacheOp.before)

(* C26 as stated: a get that hits makes its key the most recently used one
   and leaves the records as they are, a get that misses changes nothing, and
   with a capacity of at least 2 the next put of a new key after a get that
   hit k does not evict k. *)
C26_GetRefreshes ==
    /\ Hit => /\ KeyOf(Head(cache.entries)) = <<cacheOp.tag, cacheOp.msg.queries>>
              /\ EntrySet(cache) = EntrySet(cacheOp.before)
    /\ (cacheOp.op = "get" /\ cacheOp.status = "None") => cache = cacheOp.before
    /\ (StoredNew /\ cache.cap >= 2) => cacheOp.hits \subseteq Keys(cache)

(* C26 amended: as above, for the next put of a new key after a get that hit
   k when no get in between hit another key; such a put of a full cache
   evicts another entry. *)
C26_GetRefreshes_Amended ==
    /\ Hit => /\ KeyOf(Head(cache.entries)) = <<cacheOp.tag, cacheOp.msg.queries>>
              /\ EntrySet(cache) = EntrySet(cacheOp.before)
    /\ (cacheOp.op = "get" /\ cacheOp.status = "None") => cache = cacheOp.before
    /\ (StoredNew /\ cache.cap >= 2 /\ Cardinality(cacheOp.hits) = 1)
          => /\ cacheOp.hits \subseteq Keys(cache)
             /\ Len(cacheOp.before.entries) = cache.cap
                   => Keys(cacheOp.before) \ Keys(cache) # {}

\* A full cache of two entries stored a new key after gets that hit one key.
C26_Witness ==
    /\ StoredNew /\ cache.cap = 2
    /\ Len(cacheOp.before.entries) = 2
    /\ Cardinality(cacheOp.hits) = 1

\* the entries stored under the key of the last put
PutEntries(c) == {e \in EntrySet(c) : KeyOf(e) = PutKey}

(* C27: a put of a NoError response r2 under a stored key leaves one entry of
   the key, holding r2, created at the time of the put, with the TTL of r2,
   and as many entries as before; when the record replaced had expired, the
   next get of the key, made within the new TTL, reports Alive with r2. *)
C27_PutRefreshes ==
    /\ (cacheOp.op = "put" /\ cacheOp.msg.rcode = "NoError"
            /\ PutKey \in Keys(cacheOp.before))
          => /\ PutEntries(cache) =
                   {[tag |-> cacheOp.tag, queries |-> cacheOp.msg.queries,
                     rec |-> [created_instant |-> cacheOp.at,
                              msg |-> cacheOp.msg,
                              ttl |-> IF cacheOp.msg.answers = <<>> THEN MAX_TTL
                                      ELSE MinAnswerTTL(cacheOp.msg)]]}
             /\ Len(cache.entries) = Len(cacheOp.before.entries)
    /\ (cacheOp.op = "get" /\ cacheOp.revived)
          => \A e \in GetHit :
                cacheOp.at < e.rec.created_instant + e.rec.ttl
                    => cacheOp.status = "Alive" /\ cacheOp.resp = e.rec.msg

(* C32: a get(tag, q) that returns a response returns the response of the
   last put that stored under that tag and the question list of q, in its
   order, and that entry is stored; a response stored under another tag or
   another question list is not returned. *)
C32_KeyIsolation ==
    Hit =>
        /\ cacheOp.resp = last_put[<<cacheOp.tag, cacheOp.msg.queries>>]
        /\ cacheOp.resp.queries = cacheOp.msg.queries
        /\ \E e \in EntrySet(cache) :
              /\ KeyOf(e) = <<cacheOp.tag, cacheOp.msg.queries>>
              /\ e.rec.msg = cacheOp.resp

\* A get returned the second response put under its key while another
\* response is stored under the same tag and the same questions in the other
\* order.
C32_Witness ==
    /\ Hit
    /\ cacheOp.resp.id = 1
    /\ cacheOp.msg.queries = <<"q1", "q2">>
    /\ \E e \in EntrySet(cache) :
          /\ e.tag = cacheOp.tag /\ e.queries = <<"q2", "q1">>
          /\ e.rec.msg.id = 0

-----------------------------------------------------------------------------
(* Claims about the Query action *)

\* task t makes a step of a Query action of the given mode
QueryStep(t, mode) ==
    /\ tasks[t].pc \in {"action", "upstream"}
    /\ tasks[t].todo # <<>>
    /\ Head(tasks[t].todo).kind = "query"
    /\ Head(tasks[t].todo).mode = mode
    /\ tasks'[t] # tasks[t]

\* what the cache holds for the action of task t
Lookup(t) == RespCache_get(cache, Head(tasks[t].todo).tag, tasks[t].resp, now, log_info)

\* the action of task t has succeeded: its branch goes on
ActionSucceeds(t) == tasks'[t].pc \in {"rule", "action"} /\ ~tasks'[t].route_err
\* the action of task t has returned an error: resolve has answered SERVFAIL
ActionFails(t) ==
    /\ tasks'[t].pc = "done" /\ tasks'[t].route_err
    /\ tasks'[t].ret = error_msg(tasks[t].msg.id, tasks[t].msg.op_code, "ServFail")

\* C17: a Query action in mode persist. Alive hit: no upstream call,
\* state.resp is the cached response. Expired hit or miss: the upstream is
\* called; if it answers, the answer is put into the cache and is state.resp;
\* if it fails, after an Expired hit the action succeeds with the expired
\* response as state.resp, after a miss the action returns an error.
C17_Persist ==
    [][\A t \in Tasks :
         QueryStep(t, "persist") =>
           /\ tasks[t].pc = "action" =>
                /\ Lookup(t).status = "Alive" =>
                     /\ ActionSucceeds(t)
                     /\ tasks'[t].n_upstream = tasks[t].n_upstream
                     /\ tasks'[t].resp = Lookup(t).msg
                /\ Lookup(t).status \in {"Expired", "None"} =>
                     /\ tasks'[t].pc = "upstream"
                     /\ tasks'[t].got = Lookup(t).status
                     /\ tasks'[t].resp = tasks[t].resp
                     /\ Lookup(t).status = "Expired" => tasks'[t].stale = Lookup(t).msg
           /\ tasks[t].pc = "upstream" =>
                /\ tasks'[t].n_upstream = tasks[t].n_upstream + 1
                /\ tasks'[t].up = "ok" =>
                     /\ ActionSucceeds(t)
                     /\ tasks'[t].resp = tasks'[t].up_msg
                     /\ cache' = RespCache_put(cache, Head(tasks[t].todo).tag,
                                               tasks'[t].up_msg, now).cache
                /\ (tasks'[t].up = "err" /\ tasks[t].got = "Expired") =>
                     /\ ActionSucceeds(t)
                     /\ tasks'[t].resp = tasks[t].stale
                /\ (tasks'[t].up = "err" /\ tasks[t].got = "None") =>
                     /\ ActionFails(t)
      ]_vars

\* the task of t with the mode of its action changed to persist
Twin(t) == [tasks[t] EXCEPT !.todo[1].mode = "persist"]
\* two tasks that differ at most in the modes of the actions to run
SameBut(a, b) ==
    /\ [a EXCEPT !.todo = <<>>] = [b EXCEPT !.todo = <<>>]
    /\ Len(a.todo) = Len(b.todo)

\* C18: a Query action in mode standard whose cache entry is Expired and
\* whose upstream fails returns an error (resolve answers SERVFAIL) and
\* state.resp is not the expired response; in every other case it does what
\* the action in mode persist does.
C18_Standard ==
    [][\A t \in Tasks :
         QueryStep(t, "standard") =>
           /\ tasks[t].pc = "action" =>
                LET x == Action_act(Twin(t), cache, now, log_info)
                IN SameBut(tasks'[t], x.task) /\ cache' = x.cache
           /\ (tasks[t].pc = "upstream" /\ tasks'[t].up = "ok") =>
                LET x == Action_upstream_ok(Twin(t), cache, now, tasks'[t].up_msg, next_put)
                IN SameBut(tasks'[t], x.task) /\ cache' = x.cache
           /\ (tasks[t].pc = "upstream" /\ tasks'[t].up = "err") =>
                IF tasks[t].got = "Expired"
                THEN /\ ActionFails(t)
                     /\ tasks'[t].resp = tasks[t].resp
                     /\ tasks'[t].ret.answers = <<>>
                     /\ cache' = cache
                ELSE /\ SameBut(tasks'[t], Action_upstream_err(Twin(t)))
                     /\ cache' = cache
      ]_vars

\* A query in mode standard was answered SERVFAIL after an Expired hit and a
\* failure of the upstream, the expired record with its answer still stored.
C18_Witness ==
    \E t \in Tasks :
        /\ Returned(t) /\ tasks[t].route_err
        /\ tasks[t].todo # <<>> /\ Head(tasks[t].todo).mode = "standard"
        /\ tasks[t].got = "Expired" /\ tasks[t].up = "err"
        /\ \E e \in EntrySet(cache) :
              /\ KeyOf(e) = <<"mock", tasks[t].resp.queries>>
              /\ e.rec.msg.answers # <<>>
              /\ ~CacheRecord_validate(e.rec, now)

\* C19: a Query action in mode disabled leaves the cache as it is (entries
\* and order), makes no call of the cache, and calls the upstream each time
\* it runs.
C19_Disabled ==
    [][\A t \in Tasks :
         QueryStep(t, "disabled") =>
           /\ cache' = cache
           /\ tasks'[t].n_cache = tasks[t].n_cache
           /\ tasks[t].pc = "action" =>
                tasks'[t].pc = "upstream" /\ tasks'[t].resp = tasks[t].resp
           /\ tasks[t].pc = "upstream" =>
                /\ tasks'[t].n_upstream = tasks[t].n_upstream + 1
                /\ tasks'[t].up = "ok" => tasks'[t].resp = tasks'[t].up_msg
                /\ tasks'[t].up = "err" => ActionFails(t)
      ]_vars

\* An action in mode disabled waits for its upstream while the cache holds an
\* alive record for its key; the upstream has answered another such action
\* and the cache was left as it was.
C19_Witness ==
    /\ \E t \in Tasks :
          /\ tasks[t].pc = "upstream"
          /\ Head(tasks[t].todo).mode = "disabled"
          /\ Lookup(t).status = "Alive"
    /\ \E t \in Tasks :
          /\ Returned(t) /\ tasks[t].up = "ok" /\ tasks[t].n_upstream = 2
          /\ tasks[t].resp.queries = <<>>
          /\ <<"mock", <<>>>> \notin Keys(cache)

\* Task t ran the one Query(mock) action of its table on a cache without the
\* key of its question list: a miss, then the upstream's answer, a NoError
\* response to that question list, put into the cache.
MissedAndPut(t) ==
    /\ rules = TableOfTest
    /\ Returned(t) /\ ~tasks[t].route_err
    /\ tasks[t].got = "None" /\ tasks[t].n_upstream = 1 /\ tasks[t].up = "ok"
    /\ tasks[t].put_at > 0 /\ tasks[t].put_tag = "mock"
    /\ tasks[t].put_msg.queries = tasks[t].msg.queries

\* the indices of the entries of the key (tag, queries)
EntriesOf(tag, queries) == key_index(cache.entries, tag, queries)

\* C20: when two concurrent resolves of the same (tag, question list) both
\* missed, both asked the upstream and both put its answer, the cache holds,
\* after both have returned, exactly one entry of the key: the response of
\* the put that took the lock last.
C20_LastWriterWins ==
    \A t, u \in Tasks :
        (/\ t # u
         /\ MissedAndPut(t) /\ MissedAndPut(u)
         /\ tasks[t].msg.queries = tasks[u].msg.queries
         /\ tasks[t].put_at > tasks[u].put_at) =>
            /\ Cardinality(EntriesOf("mock", tasks[t].msg.queries)) = 1
            /\ \A i \in EntriesOf("mock", tasks[t].msg.queries) :
                  cache.entries[i].rec.msg = tasks[t].put_msg

\* Both resolves missed and asked the upstream, which gave them different
\* answers; each returned the answers it was given.
C20_Witness ==
    \E t, u \in Tasks :
        /\ t # u
        /\ MissedAndPut(t) /\ MissedAndPut(u)
        /\ tasks[t].msg.queries = tasks[u].msg.queries
        /\ tasks[t].put_at > tasks[u].put_at
        /\ tasks[t].put_msg.answers # tasks[u].put_msg.answers
        /\ tasks[t].ret.answers = tasks[t].put_msg.answers
        /\ tasks[u].ret.answers = tasks[u].put_msg.answers

(* C31: RespCache::get never panics while it holds the lock of the cache:
   whenever a Query action is about to look up (tag, state.resp) and an entry
   is stored under that key, state.resp has at least one query, and the
   mutex is never poisoned. *)
C31_GetNeverPanics ==
    /\ ~cache.poisoned
    /\ \A t \in Tasks :
          (/\ tasks[t].pc = "action"
           /\ Head(tasks[t].todo).kind = "query"
           /\ Head(tasks[t].todo).mode # "disabled"
           /\ log_info
           /\ key_index(cache.entries, Head(tasks[t].todo).tag,
                        tasks[t].resp.queries) # {})
              => tasks[t].resp.queries # <<>>

-----------------------------------------------------------------------------
(* Specifications *)

DomainIdle == root = Domain_new /\ inserted = {} /\ lastOp = [op |-> "new", ok |-> TRUE, again |-> FALSE]
TableIdle == table = EmptyMap /\ result = NoResult /\ calls = <<>>
RouterIdle ==
    /\ rules = EmptyMap
    /\ log_info = FALSE
    /\ cache = RespCache_new(CacheSize)
    /\ now = 0
    /\ tasks = [t \in Tasks |-> IdleTask]

CacheIdle == cacheOp = NoCacheOp
DmIdle == DmInit
MultiIdle == multi_text = <<>> /\ multi_before = Domain_new
RecordIdle == record_msg = NoMsg /\ record = NoRecord
BuildIdle == build_rules = EmptyMap /\ build_upstreams = {} /\ router = NoRouter
KeyIdle == last_put = <<>>
RouteIdle ==
    /\ route_rules = EmptyMap
    /\ route_tag = ""
    /\ route_path = <<>>
    /\ route_pc = "idle"

InitDomain == DomainInit /\ TableIdle /\ RouterIdle /\ CacheIdle /\ DmIdle /\ RouteIdle /\ MultiIdle
    /\ RecordIdle /\ BuildIdle /\ KeyIdle
NextDomain ==
    \/ \E domain \in InsertInputs :
          DomainInsert(domain) /\ UNCHANGED <<tableVars, routerVars, cacheOp, dmVars, routeVars, multiVars, recordVars, buildVars, keyVars>>
    \/ \E name \in Names :
          DomainMatches(name) /\ UNCHANGED <<tableVars, routerVars, cacheOp, dmVars, routeVars, multiVars, recordVars, buildVars, keyVars>>
SpecDomain == InitDomain /\ [][NextDomain]_vars

InitTable == TableInit /\ DomainIdle /\ RouterIdle /\ CacheIdle /\ DmIdle /\ RouteIdle /\ MultiIdle
    /\ RecordIdle /\ BuildIdle /\ KeyIdle
NextTable == TableNew /\ UNCHANGED <<domainVars, routerVars, cacheOp, dmVars, routeVars, multiVars, recordVars, buildVars, keyVars>>
SpecTable == InitTable /\ [][NextTable]_vars

InitDm == DmInit /\ DomainIdle /\ TableIdle /\ RouterIdle /\ CacheIdle /\ RouteIdle /\ MultiIdle
    /\ RecordIdle /\ BuildIdle /\ KeyIdle
NextDm ==
    \/ \E domain \in DmInputs : \E dst \in Dsts :
          DmInsert(domain, dst)
          /\ UNCHANGED <<domainVars, tableVars, routerVars, cacheOp, routeVars, multiVars, recordVars, buildVars, keyVars>>
    \/ \E name \in Names :
          DmMatches(name)
          /\ UNCHANGED <<domainVars, tableVars, routerVars, cacheOp, routeVars, multiVars, recordVars, buildVars, keyVars>>
SpecDm == InitDm /\ [][NextDm]_vars

InitRoute ==
    RouteInit /\ DomainIdle /\ TableIdle /\ RouterIdle /\ CacheIdle /\ DmIdle
        /\ MultiIdle /\ RecordIdle /\ BuildIdle /\ KeyIdle
NextRoute ==
    \/ \E matched, acted \in BOOLEAN :
          RouteTurn(matched, acted)
          /\ UNCHANGED <<domainVars, tableVars, routerVars, cacheOp, dmVars, multiVars, recordVars, buildVars, keyVars>>
    \/ RouteEnd
          /\ UNCHANGED <<domainVars, tableVars, routerVars, cacheOp, dmVars, multiVars, recordVars, buildVars, keyVars>>
SpecRoute == InitRoute /\ [][NextRoute]_vars

InitMulti ==
    MultiInit /\ TableIdle /\ RouterIdle /\ CacheIdle /\ DmIdle /\ RouteIdle
        /\ RecordIdle /\ BuildIdle /\ KeyIdle
NextMulti ==
    DomainInsertMulti
        /\ UNCHANGED <<tableVars, routerVars, cacheOp, dmVars, routeVars, recordVars, buildVars, keyVars>>
SpecMulti == InitMulti /\ [][NextMulti]_vars

InitRecord ==
    RecordInit /\ DomainIdle /\ TableIdle /\ RouterIdle /\ CacheIdle /\ DmIdle
        /\ RouteIdle /\ MultiIdle /\ BuildIdle /\ KeyIdle
NextRecord ==
    RecordNew
        /\ UNCHANGED <<domainVars, tableVars, routerVars, cacheOp, dmVars,
                       routeVars, multiVars, buildVars, keyVars>>
SpecRecord == InitRecord /\ [][NextRecord]_vars

InitBuild ==
    BuildInit /\ DomainIdle /\ TableIdle /\ RouterIdle /\ CacheIdle /\ DmIdle
        /\ RouteIdle /\ MultiIdle /\ RecordIdle /\ KeyIdle
NextBuild ==
    BuildRouter
        /\ UNCHANGED <<domainVars, tableVars, routerVars, cacheOp, dmVars,
                       routeVars, multiVars, recordVars, keyVars>>
SpecBuild == InitBuild /\ [][NextBuild]_vars

InitKey ==
    KeyInit /\ DomainIdle /\ TableIdle /\ DmIdle /\ RouteIdle /\ MultiIdle
        /\ RecordIdle /\ BuildIdle
NextKey ==
    \/ \E k \in KeySpace : \E msg \in {m \in KeyPutMsgs : m.queries = k[2]} :
          KeyPut(k[1], msg)
          /\ UNCHANGED <<domainVars, tableVars, dmVars, routeVars, multiVars,
                         recordVars, buildVars>>
    \/ \E k \in KeySpace : \E msg \in {m \in KeyGetMsgs : m.queries = k[2]} :
          KeyGet(k[1], msg)
          /\ UNCHANGED <<domainVars, tableVars, dmVars, routeVars, multiVars,
                         recordVars, buildVars>>
SpecKey == InitKey /\ [][NextKey]_vars

InitCache == CacheInit /\ DomainIdle /\ TableIdle /\ DmIdle /\ RouteIdle /\ MultiIdle
    /\ RecordIdle /\ BuildIdle /\ KeyIdle
NextCache ==
    \/ \E tag \in CacheTags : \E msg \in PutMsgs :
          CachePut(tag, msg) /\ UNCHANGED <<domainVars, tableVars, dmVars, routeVars, multiVars, recordVars, buildVars, keyVars>>
    \/ \E tag \in CacheTags : \E msg \in GetMsgs :
          CacheGet(tag, msg) /\ UNCHANGED <<domainVars, tableVars, dmVars, routeVars, multiVars, recordVars, buildVars, keyVars>>
    \/ Tick /\ UNCHANGED <<domainVars, tableVars, cacheOp, dmVars, routeVars, multiVars, recordVars, buildVars, keyVars>>
SpecCache == InitCache /\ [][NextCache]_vars

Init == RouterInit /\ DomainIdle /\ TableIdle /\ CacheIdle /\ DmIdle /\ RouteIdle /\ MultiIdle
    /\ RecordIdle /\ BuildIdle /\ KeyIdle
Next ==
    \/ \E t \in Tasks : \E msg \in InputMsgs(t) : \E name_ok \in BOOLEAN :
          Resolve(t, msg, name_ok) /\ UNCHANGED <<domainVars, tableVars, cacheOp, dmVars, routeVars, multiVars, recordVars, buildVars, keyVars>>
    \/ \E t \in Tasks : \E octets_ok \in BOOLEAN :
          RouteLoop(t, octets_ok) /\ UNCHANGED <<domainVars, tableVars, cacheOp, dmVars, routeVars, multiVars, recordVars, buildVars, keyVars>>
    \/ \E t \in Tasks : Act(t) /\ UNCHANGED <<domainVars, tableVars, cacheOp, dmVars, routeVars, multiVars, recordVars, buildVars, keyVars>>
    \/ \E t \in Tasks : \E r \in UpstreamResponses(tasks[t].resp) :
          UpstreamOk(t, r) /\ UNCHANGED <<domainVars, tableVars, cacheOp, dmVars, routeVars, multiVars, recordVars, buildVars, keyVars>>
    \/ \E t \in Tasks : UpstreamErr(t) /\ UNCHANGED <<domainVars, tableVars, cacheOp, dmVars, routeVars, multiVars, recordVars, buildVars, keyVars>>
    \/ Tick /\ UNCHANGED <<domainVars, tableVars, cacheOp, dmVars, routeVars, multiVars, recordVars, buildVars, keyVars>>
Spec == Init /\ [][Next]_vars

=============================================================================
